---- MODULE Spec2Model ----
(***************************************************************************)
(* Coverage scheduler of the train-schedule preparation scripts:           *)
(*   - the timing functions create_smart_timing                            *)
(*     (scripts/Mapultra_optimize_trains.py), create_minimal_timing_strategy*)
(*     (scripts/Mapcreate_minimal_trains.py) and create_continuous_timing   *)
(*     (scripts/optimize_trains.py);                                        *)
(*   - the hourly coverage count of ensure_24x7_coverage and of the         *)
(*     check_*_coverage scripts;                                            *)
(*   - the gap filling of ensure_24x7_coverage and the output loop of       *)
(*     create_ultra_optimized_trains;                                       *)
(*   - create_continuous_schedule (scripts/create_always_running.py);       *)
(*   - the alignment scripts scripts/fix_alignment.py,                      *)
(*     scripts/fix_train_alignment.py and scripts/fix_train_routes.py;      *)
(*   - whole runs of scripts/Mapultra_optimize_trains.py,                   *)
(*     scripts/Mapcreate_minimal_trains.py,                                 *)
(*     scripts/Mapextract_daily_trains.py and build_routes.py.              *)
(*                                                                         *)
(* A time string "HH:MM:SS" is the tuple <<HH, MM, SS>>; a time of day     *)
(* (datetime.time) is its number of seconds since midnight; a datetime is  *)
(* a number of seconds since midnight of its own day 0, and may exceed a   *)
(* day; a timedelta is a number of seconds.                                *)
(***************************************************************************)
EXTENDS Integers, Sequences, FiniteSets, TLC

VARIABLES
    pc,                     \* position of the script that is running
    top_trains,             \* create_ultra_optimized_trains: the scored selection
    trains_with_schedules,  \* create_ultra_optimized_trains: the selected routes
    hourly_coverage,        \* the 24 counts of the last coverage count
    gap_hours,              \* ensure_24x7_coverage: hours below min_coverage_needed
    ultra_trains,           \* create_ultra_optimized_trains: the output entries
    call,                   \* arguments of the timing function under call
    call_duration,          \* journey duration computed by the function under call
    schedules,              \* result of the timing function under call
    hist_input,             \* a list of schedules, a reordering and a split of it
    histograms,             \* the coverage counts of the list, the reordering, the parts
    align_call,             \* the script under run, its network file and its trains
    railway_points,         \* the track points loaded from the network file
    new_routes,             \* per train, the route handed to the snapping loop
    snap_log,               \* per train, the nearest-track searches of its snapping loop
    fixed_trains,           \* per train, the route_coordinates of the written file
    run,                    \* the script started and the content of its input file
    output_file,            \* the content of the output file of the script
    exit_status,            \* the exit status of the interpreter, once it has exited
    printed                 \* the last line the script printed

vars == <<pc, top_trains, trains_with_schedules, hourly_coverage, gap_hours, ultra_trains,
          call, call_duration, schedules, hist_input, histograms, align_call,
          railway_points, new_routes, snap_log, fixed_trains, run, output_file,
          exit_status, printed>>

\* the variables of the coverage-count comparison and of the alignment scripts
hist_vars == <<hist_input, histograms>>
align_vars == <<align_call, railway_points, new_routes, snap_log, fixed_trains>>

\* the variables of a whole run of a script, from its input file to its exit
run_vars == <<run, output_file, exit_status, printed>>

----------------------------------------------------------------------------
(* Bounds of the model *)

MaxRoutes == 4
MaxInstances == 3

(* Program constants *)

min_coverage_needed == 15
TopTrains == 10
MaxGapsFilled == 2
SecondsPerHour == 3600
HoursPerDay == 24

SecondsPerDay == HoursPerDay * SecondsPerHour

Hours == 0 .. (HoursPerDay - 1)

----------------------------------------------------------------------------
(* Time strings and times of day *)

\* the strings strptime(.., '%H:%M:%S') accepts
IsTimeString(s) ==
    /\ Len(s) = 3
    /\ s[1] \in 0 .. 23
    /\ s[2] \in 0 .. 59
    /\ s[3] \in 0 .. 59

\* datetime.strptime(s, '%H:%M:%S') of an accepted string, as seconds
strptime(s) == s[1] * SecondsPerHour + s[2] * 60 + s[3]

\* datetime.time(): the time of day of a datetime (the date is dropped)
time_of(dt) == dt % SecondsPerDay

\* time.strftime('%H:%M:%S')
strftime(t) == <<t \div SecondsPerHour, (t % SecondsPerHour) \div 60, t % 60>>

\* time.hour
hour_of(t) == t \div SecondsPerHour

\* variant of parse_time: the default of an unparseable string is 00:00:00
parse_time_midnight(time_str) ==
    IF IsTimeString(time_str) THEN strptime(time_str) ELSE strptime(<<0, 0, 0>>)

\* the nested parse_time of the three timing functions and of
\* create_continuous_schedule: the parsed time, or
\* 06:00:00 when strptime raises
parse_time(time_str) ==
    IF IsTimeString(time_str) THEN strptime(time_str) ELSE strptime(<<6, 0, 0>>)

----------------------------------------------------------------------------
(* The timing functions *)

\* variant of journey_duration: the day is added only when the arrival is before the departure
journey_duration_lt(dep_time, arr_time) ==
    LET dep_dt == dep_time
        arr_dt == IF arr_time < dep_time THEN arr_time + SecondsPerDay ELSE arr_time
    IN  arr_dt - dep_dt

\* "Calculate journey duration": arr_dt moves to the next day when it is not
\* after dep_dt (the same five lines in the three timing functions)
journey_duration(dep_time, arr_time) ==
    LET dep_dt == dep_time
        arr_dt == IF arr_time <= dep_time THEN arr_time + SecondsPerDay ELSE arr_time
    IN  arr_dt - dep_dt

\* variant of timed_schedules: every schedule keeps the arrival of the base trip
timed_schedules_fixed_arrival(base_departure, base_arrival, intervals) ==
    LET dep_dt == parse_time(base_departure)
    IN  [i \in 1 .. Len(intervals) |->
            [departure   |-> strftime(time_of(dep_dt + intervals[i] * SecondsPerHour)),
             arrival     |-> strftime(parse_time(base_arrival)),
             schedule_id |-> (i - 1) + 1]]

\* the loop "for i, offset in enumerate(intervals)" (the same in the three
\* timing functions); i counts from 0 in the code and from 1 here
timed_schedules(base_departure, base_arrival, intervals) ==
    LET dep_time == parse_time(base_departure)
        arr_time == parse_time(base_arrival)
        dep_dt   == dep_time
        duration == journey_duration(dep_time, arr_time)
    IN  [i \in 1 .. Len(intervals) |->
            LET new_dep_dt == dep_dt + intervals[i] * SecondsPerHour
                new_arr_dt == new_dep_dt + duration
            IN  [departure   |-> strftime(time_of(new_dep_dt)),
                 arrival     |-> strftime(time_of(new_arr_dt)),
                 schedule_id |-> (i - 1) + 1]]

\* create_smart_timing: the table of train_priority
smart_intervals(train_priority) ==
    IF train_priority = "ultra_high" THEN <<0, 6, 12, 18>>
    ELSE IF train_priority = "high" THEN <<0, 8, 16>>
    ELSE IF train_priority = "medium" THEN <<0, 12>>
    ELSE <<0>>

\* variant of minimal_intervals: a "daily" level that runs once
minimal_intervals_daily(efficiency_level) ==
    IF efficiency_level = "maximum" THEN <<0, 4, 8, 12, 16, 20>>
    ELSE IF efficiency_level = "high" THEN <<0, 6, 12, 18>>
    ELSE IF efficiency_level = "medium" THEN <<0, 8, 16>>
    ELSE IF efficiency_level = "daily" THEN <<0>>
    ELSE <<0, 12>>

\* create_minimal_timing_strategy: the table of efficiency_level
minimal_intervals(efficiency_level) ==
    IF efficiency_level = "maximum" THEN <<0, 4, 8, 12, 16, 20>>
    ELSE IF efficiency_level = "high" THEN <<0, 6, 12, 18>>
    ELSE IF efficiency_level = "medium" THEN <<0, 8, 16>>
    ELSE <<0, 12>>

\* create_continuous_timing: the table of frequency
continuous_intervals(frequency) ==
    IF frequency = "high" THEN <<0, 4, 8, 12, 16, 20>>
    ELSE IF frequency = "medium" THEN <<0, 8, 16>>
    ELSE <<0>>

create_smart_timing(base_departure, base_arrival, train_priority) ==
    timed_schedules(base_departure, base_arrival, smart_intervals(train_priority))

create_minimal_timing_strategy(base_departure, base_arrival, efficiency_level) ==
    timed_schedules(base_departure, base_arrival, minimal_intervals(efficiency_level))

create_continuous_timing(base_departure, base_arrival, frequency) ==
    timed_schedules(base_departure, base_arrival, continuous_intervals(frequency))

\* create_continuous_schedule: the intervals of a train name; the name is
\* the set of the keywords that occur in its upper-case form
schedule_intervals(train_name) ==
    IF train_name \cap {"LOCAL", "EMU", "PASSENGER"} # {}
    THEN <<0, 2, 4, 6, 8, 10, 12, 14, 16, 18, 20, 22>>
    ELSE IF train_name \cap {"EXPRESS", "SUPERFAST"} # {} THEN <<0, 12>>
    ELSE <<0>>

\* create_continuous_schedule: departure and arrival are both shifted by the
\* offset (no duration is computed); the id "<train_id>_<i+1>" is the pair
\* <<train_id, i + 1>> and the id "<train_id>" is <<train_id>>
create_continuous_schedule(train_entry, train_id) ==
    LET dep_time  == parse_time(train_entry.departure)
        arr_time  == parse_time(train_entry.arrival)
        intervals == schedule_intervals(train_entry.train_name)
    IN  [j \in 1 .. Len(intervals) |->
            LET i       == j - 1
                offset  == intervals[j]
                new_dep == time_of(dep_time + offset * SecondsPerHour)
                new_arr == time_of(arr_time + offset * SecondsPerHour)
            IN  [id        |-> IF i > 0 THEN <<train_id, i + 1>> ELSE <<train_id>>,
                 departure |-> strftime(new_dep),
                 arrival   |-> strftime(new_arr)]]

----------------------------------------------------------------------------
(* The hourly coverage count *)

\* variant of schedule_coverage: the midnight branch taken for arr_hour < dep_hour only
schedule_coverage_lt(dep_hour, arr_hour, h) ==
    IF arr_hour < dep_hour
    THEN (IF dep_hour <= h /\ h < HoursPerDay THEN 1 ELSE 0)
         + (IF 0 <= h /\ h < arr_hour + 1 THEN 1 ELSE 0)
    ELSE (IF dep_hour <= h /\ h < arr_hour + 1 THEN 1 ELSE 0)

\* how often one schedule increments hourly_coverage[h]: the branch
\* "arr_hour <= dep_hour" runs range(dep_hour, 24) and then
\* range(0, arr_hour + 1), the other branch runs range(dep_hour, arr_hour + 1);
\* every loop that meets h adds 1
schedule_coverage(dep_hour, arr_hour, h) ==
    IF arr_hour <= dep_hour
    THEN (IF dep_hour <= h /\ h < HoursPerDay THEN 1 ELSE 0)
         + (IF 0 <= h /\ h < arr_hour + 1 THEN 1 ELSE 0)
    ELSE (IF dep_hour <= h /\ h < arr_hour + 1 THEN 1 ELSE 0)

\* the body of the loop over the schedules: both strings are parsed and only
\* their hours are used
coverage_of(schedule, h) ==
    LET dep_time == strptime(schedule.departure)
        arr_time == strptime(schedule.arrival)
    IN  schedule_coverage(hour_of(dep_time), hour_of(arr_time), h)

\* variant of hour_count: a list of schedules adds at most 1 to a bucket
RECURSIVE hour_count_once(_, _, _)
hour_count_once(instances, n, h) ==
    IF n = 0 THEN 0
    ELSE IF hour_count_once(instances, n - 1, h) + coverage_of(instances[n], h) > 0
         THEN 1 ELSE 0

\* the increments of hourly_coverage[h] by the first n schedules of a list
RECURSIVE hour_count(_, _, _)
hour_count(instances, n, h) ==
    IF n = 0 THEN 0
    ELSE hour_count(instances, n - 1, h) + coverage_of(instances[n], h)

\* the increments of hourly_coverage[h] by the schedules of the first i
\* routes (the nested loops over train_data and schedule)
RECURSIVE routes_hour_count(_, _, _)
routes_hour_count(tws, i, h) ==
    IF i = 0 THEN 0
    ELSE routes_hour_count(tws, i - 1, h)
         + hour_count(tws[i].schedules, Len(tws[i].schedules), h)

\* ensure_24x7_coverage: hourly_coverage = [0] * 24, then the nested loops
count_coverage(tws) ==
    [h \in Hours |-> 0 + routes_hour_count(tws, Len(tws), h)]

\* check_coverage: hourly_coverage = [0] * 24, then the loop over the trains
\* entries of the file
check_coverage(trains) ==
    [h \in Hours |-> 0 + hour_count(trains, Len(trains), h)]

HourSeq == [i \in 1 .. HoursPerDay |-> i - 1]

\* gap_hours = [h for h in range(24) if hourly_coverage[h] < min_coverage_needed]
find_gap_hours(coverage) ==
    SelectSeq(HourSeq, LAMBDA h : coverage[h] < min_coverage_needed)

----------------------------------------------------------------------------
(* ensure_24x7_coverage: filling the gaps *)

Min(a, b) == IF a <= b THEN a ELSE b

\* variant of gap_duration: the operands of the subtraction exchanged
gap_duration_swapped(first) ==
    LET base_dep == strptime(first.departure)
        base_arr == strptime(first.arrival)
        duration == base_dep - base_arr
    IN  IF duration < 0 THEN duration + SecondsPerDay ELSE duration

\* duration = base_arr - base_dep of schedules[0], a day added when negative
gap_duration(first) ==
    LET base_dep == strptime(first.departure)
        base_arr == strptime(first.arrival)
        duration == base_arr - base_dep
    IN  IF duration < 0 THEN duration + SecondsPerDay ELSE duration

\* variant of additional_schedules: the schedule_id taken from the length of
\* the schedules alone
additional_schedules_same_id(train_data, gaps) ==
    LET filled   == SubSeq(gaps, 1, Min(MaxGapsFilled, Len(gaps)))
        duration == gap_duration(train_data.schedules[1])
    IN  [j \in 1 .. Len(filled) |->
            LET gap_dep_time == <<filled[j], 0, 0>>
                gap_dep_dt   == strptime(gap_dep_time)
                gap_arr_dt   == gap_dep_dt + duration
            IN  [departure   |-> strftime(time_of(gap_dep_dt)),
                 arrival     |-> strftime(time_of(gap_arr_dt)),
                 schedule_id |-> Len(train_data.schedules) + 1]]

\* the loop "for gap_hour in gap_hours[:2]" over one train_data; j counts the
\* schedules already in additional_schedules, plus one
additional_schedules(train_data, gaps) ==
    LET filled   == SubSeq(gaps, 1, Min(MaxGapsFilled, Len(gaps)))
        duration == gap_duration(train_data.schedules[1])
    IN  [j \in 1 .. Len(filled) |->
            LET gap_dep_time == <<filled[j], 0, 0>>
                gap_dep_dt   == strptime(gap_dep_time)
                gap_arr_dt   == gap_dep_dt + duration
            IN  [departure   |-> strftime(time_of(gap_dep_dt)),
                 arrival     |-> strftime(time_of(gap_arr_dt)),
                 schedule_id |-> Len(train_data.schedules) + (j - 1) + 1]]

\* variant of backfill_candidates: the test of priority_score left out
backfill_candidates_any(tws) ==
    {i \in 1 .. Min(TopTrains, Len(tws)) : tws[i].priority_score >= 0}

\* the routes the loop over trains_with_schedules[:10] can stop at
backfill_candidates(tws) ==
    {i \in 1 .. Min(TopTrains, Len(tws)) : tws[i].priority_score > 140}

\* variant of fill_gaps: the schedules assigned instead of extended
fill_gaps_replacing(tws, gaps) ==
    IF gaps = <<>> \/ backfill_candidates(tws) = {}
    THEN tws
    ELSE LET k == CHOOSE i \in backfill_candidates(tws) :
                      \A j \in backfill_candidates(tws) : i <= j
         IN  [tws EXCEPT ![k].schedules = additional_schedules(tws[k], gaps)]

\* "if gap_hours:" and the loop that extends the first candidate and breaks
fill_gaps(tws, gaps) ==
    IF gaps = <<>> \/ backfill_candidates(tws) = {}
    THEN tws
    ELSE LET k == CHOOSE i \in backfill_candidates(tws) :
                      \A j \in backfill_candidates(tws) : i <= j
         IN  [tws EXCEPT ![k].schedules = @ \o additional_schedules(tws[k], gaps)]

\* what ensure_24x7_coverage reports about gaps left below the minimum after
\* the filling: nothing (its one message, "Coverage gaps found at hours", is
\* printed from gap_hours before any schedule is added, and the function
\* returns the routes alone)
reported_unresolved == {}

----------------------------------------------------------------------------
(* create_ultra_optimized_trains *)

\* the priority a score selects
priority_of(score) ==
    IF score >= 140 THEN "ultra_high"
    ELSE IF score >= 120 THEN "high"
    ELSE IF score >= 100 THEN "medium"
    ELSE "daily"

\* the loop "for score, train in top_trains"
with_schedules(top) ==
    [i \in 1 .. Len(top) |->
        [train          |-> top[i].train,
         schedules      |-> create_smart_timing(top[i].train.departure,
                                                top[i].train.arrival,
                                                priority_of(top[i].score)),
         priority_score |-> top[i].score]]

\* the entries of route number i (train_id ULTRA<i>): the id is the pair
\* <<i, schedule_id>> for "ULTRA<i>_<schedule_id>" and <<i>> for "ULTRA<i>"
entries_of(i, train_data) ==
    [k \in 1 .. Len(train_data.schedules) |->
        LET schedule == train_data.schedules[k]
        IN  [id        |-> IF schedule.schedule_id > 1
                           THEN <<i, schedule.schedule_id>> ELSE <<i>>,
             departure |-> schedule.departure,
             arrival   |-> schedule.arrival]]

\* the loop "for i, train_data in enumerate(trains_with_schedules)", from
\* route number i on
RECURSIVE entries_from(_, _)
entries_from(i, tws) ==
    IF i > Len(tws) THEN <<>>
    ELSE entries_of(i, tws[i]) \o entries_from(i + 1, tws)

----------------------------------------------------------------------------
(* Inputs *)

\* scores calculate_ultra_priority can give to a selected train (score >= 100):
\* the least, the least that makes a train ultra_high, and one above 140
Scores == {100, 140, 145}

\* departure and arrival strings of the selected trains
BaseTrips ==
    { [departure |-> <<6, 0, 0>>,  arrival |-> <<18, 0, 0>>],
      [departure |-> <<23, 0, 0>>, arrival |-> <<2, 0, 0>>],
      [departure |-> <<8, 0, 0>>,  arrival |-> <<8, 0, 0>>] }

\* scored_trains.sort(key=lambda x: x[0], reverse=True)
SortedByScore(top) ==
    \A i \in 1 .. Len(top) - 1 : top[i].score >= top[i + 1].score

Selections ==
    { top \in UNION { [1 .. n -> [score : Scores, train : BaseTrips]] :
                        n \in 0 .. MaxRoutes } : SortedByScore(top) }

\* strings handed to the timing functions; the last two are strings strptime
\* rejects ("24:00:00" and "")
TimeStrings ==
    { <<h, 0, 0>> : h \in Hours }
        \cup { <<h, m, 0>> : h \in {8, 23}, m \in {5, 50} }
        \cup { <<23, 59, 59>>, <<24, 0, 0>>, <<>> }

TimingFunctions == {"create_smart_timing", "create_minimal_timing_strategy",
                    "create_continuous_timing"}

TierNames == {"maximum", "ultra_high", "high", "medium", "standard", "daily"}

NoCall == [fn |-> "none", tier |-> "none", base_departure |-> <<>>,
           base_arrival |-> <<>>]

NoCoverage == [h \in Hours |-> 0]

NoHistInput == [whole |-> <<>>, order |-> <<>>, left |-> {}]

NoAlignCall == [script |-> "none", features |-> <<>>, trains |-> <<>>]

\* the scripts that are not running have no state
HistIdle ==
    /\ hist_input = NoHistInput
    /\ histograms = <<>>

AlignIdle ==
    /\ align_call = NoAlignCall
    /\ railway_points = <<>>
    /\ new_routes = <<>>
    /\ snap_log = <<>>
    /\ fixed_trains = <<>>

NoRun == [script |-> "none", input |-> <<>>]

RunIdle ==
    /\ run = NoRun
    /\ output_file = "absent"
    /\ exit_status = "running"
    /\ printed = ""

----------------------------------------------------------------------------
(* create_ultra_optimized_trains, from the selection of top_trains on *)

Init ==
    /\ pc = "Proposed"
    /\ top_trains \in Selections
    /\ trains_with_schedules = <<>>
    /\ hourly_coverage = NoCoverage
    /\ gap_hours = <<>>
    /\ ultra_trains = <<>>
    /\ call = NoCall
    /\ call_duration = 0
    /\ schedules = <<>>
    /\ HistIdle
    /\ AlignIdle
    /\ RunIdle

\* "Create schedules with smart timing"
CreateSchedules ==
    /\ pc = "Proposed"
    /\ trains_with_schedules' = with_schedules(top_trains)
    /\ pc' = "Expanded"
    /\ UNCHANGED <<top_trains, hourly_coverage, gap_hours, ultra_trains, call,
                   call_duration, schedules, hist_vars, align_vars, run_vars>>

\* trains_with_schedules = ensure_24x7_coverage(trains_with_schedules)
EnsureCoverage ==
    /\ pc = "Expanded"
    /\ \E coverage \in {count_coverage(trains_with_schedules)} :
         \E gaps \in {find_gap_hours(coverage)} :
            /\ hourly_coverage' = coverage
            /\ gap_hours' = gaps
            /\ trains_with_schedules' = fill_gaps(trains_with_schedules, gaps)
    /\ pc' = "Backfilled"
    /\ UNCHANGED <<top_trains, ultra_trains, call, call_duration, schedules,
                   hist_vars, align_vars, run_vars>>

\* "Create final optimized train entries"
CreateEntries ==
    /\ pc = "Backfilled"
    /\ ultra_trains' = entries_from(1, trains_with_schedules)
    /\ pc' = "Written"
    /\ UNCHANGED <<top_trains, trains_with_schedules, hourly_coverage, gap_hours,
                   call, call_duration, schedules, hist_vars, align_vars, run_vars>>

Next == CreateSchedules \/ EnsureCoverage \/ CreateEntries

Spec == Init /\ [][Next]_vars

----------------------------------------------------------------------------
(* One call of a timing function, and the coverage count of its result *)

TimingInit ==
    /\ pc = "timing_call"
    /\ call \in [fn : TimingFunctions, tier : TierNames,
                 base_departure : TimeStrings, base_arrival : TimeStrings]
    /\ call_duration = 0
    /\ schedules = <<>>
    /\ hourly_coverage = NoCoverage
    /\ top_trains = <<>>
    /\ trains_with_schedules = <<>>
    /\ gap_hours = <<>>
    /\ ultra_trains = <<>>
    /\ HistIdle
    /\ AlignIdle
    /\ RunIdle

CallTiming ==
    /\ pc = "timing_call"
    /\ call.fn \in TimingFunctions
    /\ call_duration' = journey_duration(parse_time(call.base_departure),
                                         parse_time(call.base_arrival))
    /\ schedules' =
         IF call.fn = "create_smart_timing"
         THEN create_smart_timing(call.base_departure, call.base_arrival, call.tier)
         ELSE IF call.fn = "create_minimal_timing_strategy"
         THEN create_minimal_timing_strategy(call.base_departure, call.base_arrival,
                                             call.tier)
         ELSE create_continuous_timing(call.base_departure, call.base_arrival,
                                       call.tier)
    /\ pc' = "timing_done"
    /\ UNCHANGED <<call, hourly_coverage, top_trains, trains_with_schedules,
                   gap_hours, ultra_trains, hist_vars, align_vars, run_vars>>

\* check_coverage on the schedules written
CheckCoverage ==
    /\ pc = "timing_done"
    /\ hourly_coverage' = check_coverage(schedules)
    /\ pc' = "coverage_checked"
    /\ UNCHANGED <<call, call_duration, schedules, top_trains,
                   trains_with_schedules, gap_hours, ultra_trains, hist_vars,
                   align_vars, run_vars>>

TimingNext == CallTiming \/ CheckCoverage

SpecTiming == TimingInit /\ [][TimingNext]_vars

----------------------------------------------------------------------------
(* One call of a timing function or of create_continuous_schedule *)

\* the keywords of the train names
TrainNames == {{"LOCAL"}, {"EXPRESS"}, {}}

\* the train entries of create_continuous_schedule, as the arguments of a call
ScheduleCalls ==
    [fn : {"create_continuous_schedule"}, train_name : TrainNames,
     base_departure : TimeStrings, base_arrival : TimeStrings]

ExpandInit ==
    /\ pc = "timing_call"
    /\ call \in [fn : TimingFunctions, tier : TierNames,
                 base_departure : TimeStrings, base_arrival : TimeStrings]
                \cup ScheduleCalls
    /\ call_duration = 0
    /\ schedules = <<>>
    /\ hourly_coverage = NoCoverage
    /\ top_trains = <<>>
    /\ trains_with_schedules = <<>>
    /\ gap_hours = <<>>
    /\ ultra_trains = <<>>
    /\ HistIdle
    /\ AlignIdle
    /\ RunIdle

\* create_continuous_schedule(train, "T001")
CallSchedule ==
    /\ pc = "timing_call"
    /\ call.fn = "create_continuous_schedule"
    /\ schedules' = create_continuous_schedule(
                        [departure  |-> call.base_departure,
                         arrival    |-> call.base_arrival,
                         train_name |-> call.train_name], 1)
    /\ pc' = "timing_done"
    /\ UNCHANGED <<call, call_duration, hourly_coverage, top_trains,
                   trains_with_schedules, gap_hours, ultra_trains, hist_vars,
                   align_vars, run_vars>>

ExpandNext == CallTiming \/ CallSchedule

SpecExpand == ExpandInit /\ [][ExpandNext]_vars

----------------------------------------------------------------------------
(* The coverage count of a list of schedules, of a reordering of the list  *)
(* and of the two parts of a split of the list                             *)

\* the list in the order of the permutation
reordered(whole, order) == [i \in 1 .. Len(whole) |-> whole[order[i]]]

\* the schedules of the first n positions that a part keeps, in list order
RECURSIVE part_of(_, _, _)
part_of(whole, keep, n) ==
    IF n = 0 THEN <<>>
    ELSE IF n \in keep THEN Append(part_of(whole, keep, n - 1), whole[n])
         ELSE part_of(whole, keep, n - 1)

\* the list as trains_with_schedules: the schedules, two by two, are the
\* 'schedules' of consecutive routes
as_routes(instances) ==
    [k \in 1 .. ((Len(instances) + 1) \div 2) |->
        [schedules |-> SubSeq(instances, 2 * k - 1, Min(2 * k, Len(instances)))]]

\* a list of schedules (their departure and arrival strings), a permutation
\* of its positions and the positions of the left part of a split
HistInit ==
    /\ pc = "histogram_call"
    /\ \E n \in 0 .. MaxInstances :
         \E w \in [1 .. n -> BaseTrips], o \in Permutations(1 .. n),
            l \in SUBSET (1 .. n) :
             hist_input = [whole |-> w, order |-> o, left |-> l]
    /\ histograms = <<>>
    /\ top_trains = <<>>
    /\ trains_with_schedules = <<>>
    /\ hourly_coverage = NoCoverage
    /\ gap_hours = <<>>
    /\ ultra_trains = <<>>
    /\ call = NoCall
    /\ call_duration = 0
    /\ schedules = <<>>
    /\ AlignIdle
    /\ RunIdle

\* the counting loops of ensure_24x7_coverage, run on the list, on the
\* reordered list and on each part of the split
CountHistograms ==
    /\ pc = "histogram_call"
    /\ \E n \in {Len(hist_input.whole)} :
       \E whole \in {as_routes(hist_input.whole)},
          other \in {as_routes(reordered(hist_input.whole, hist_input.order))},
          left  \in {as_routes(part_of(hist_input.whole, hist_input.left, n))},
          right \in {as_routes(part_of(hist_input.whole,
                                       (1 .. n) \ hist_input.left, n))} :
            histograms' = [whole     |-> count_coverage(whole),
                           reordered |-> count_coverage(other),
                           left      |-> count_coverage(left),
                           right     |-> count_coverage(right)]
    /\ pc' = "histogram_done"
    /\ UNCHANGED <<hist_input, top_trains, trains_with_schedules, hourly_coverage,
                   gap_hours, ultra_trains, call, call_duration, schedules,
                   align_vars, run_vars>>

HistNext == CountHistograms

SpecHistogram == HistInit /\ [][HistNext]_vars

----------------------------------------------------------------------------
(* The alignment scripts fix_alignment.py, fix_train_alignment.py and      *)
(* fix_train_routes.py.                                                     *)
(*                                                                         *)
(* A coordinate entry [lon, lat] is the tuple <<lon, lat>> of two          *)
(* integers, positions in km on a local plane; an entry with fewer than     *)
(* two components is the tuple <<>> or <<x>>.  A distance in km is kept as  *)
(* its square, and "d <= r" is compared as "d^2 <= r^2".  The geometry of a *)
(* feature is the record of its 'type' and 'coordinates'; the type          *)
(* "no type" stands for a geometry object without the key 'type' and the   *)
(* type "null" for a feature whose geometry is null.                        *)

MaxTrains == 2

align_max_distance_km == 5
snap_threshold_km == 2
snap_max_distance_km == 20
interp_max_distance_km == 15
sparse_route_points == 8
num_points == 6
inf == 1000000

\* len(coord) >= 2
well_formed(coord) == Len(coord) >= 2

RECURSIVE Flatten(_)
Flatten(lists) ==
    IF lists = <<>> THEN <<>> ELSE Head(lists) \o Flatten(Tail(lists))

\* distance_km and haversine_distance, squared
distance_km_squared(lat1, lng1, lat2, lng2) ==
    (lat2 - lat1) * (lat2 - lat1) + (lng2 - lng1) * (lng2 - lng1)

\* the lines of a geometry the two loaders read: the coordinates of a
\* LineString, each list of a MultiLineString, and nothing of another type
lines_of(geom) ==
    IF geom.type = "LineString" THEN <<geom.coordinates>>
    ELSE IF geom.type = "MultiLineString" THEN geom.coordinates
    ELSE <<>>

\* fix_alignment.py, load_railway_network: the points [lat, lng] of the
\* entries with at least two components; geom.get raises on a null geometry
\* and the except clause returns []
load_railway_network(features) ==
    IF \E i \in 1 .. Len(features) : features[i].geometry.type = "null"
    THEN <<>>
    ELSE Flatten([i \in 1 .. Len(features) |->
            LET coords == SelectSeq(Flatten(lines_of(features[i].geometry)), well_formed)
            IN  [k \in 1 .. Len(coords) |-> <<coords[k][2], coords[k][1]>>]])

\* fix_train_routes.py, load_railway_network: the points {'lat', 'lon'}
load_track_points(features) ==
    Flatten([i \in 1 .. Len(features) |->
        LET coords == SelectSeq(Flatten(lines_of(features[i].geometry)), well_formed)
        IN  [k \in 1 .. Len(coords) |-> [lat |-> coords[k][2], lon |-> coords[k][1]]]])

\* the scan "if dist < min_dist and dist <= max_distance_km" over distances
\* ds: the first position of the least distance within the radius, 0 if none
first_nearest(ds, max_distance_km) ==
    LET near == {i \in 1 .. Len(ds) : ds[i] <= max_distance_km * max_distance_km}
    IN  IF near = {} THEN 0
        ELSE CHOOSE i \in near :
                \A j \in near : ds[i] < ds[j] \/ (ds[i] = ds[j] /\ i <= j)

\* fix_alignment.py: (nearest_point, min_dist), None being <<>>
find_nearest_railway_point(target_lat, target_lng, points, max_distance_km) ==
    LET ds   == [i \in 1 .. Len(points) |->
                    distance_km_squared(target_lat, target_lng,
                                        points[i][1], points[i][2])]
        best == first_nearest(ds, max_distance_km)
    IN  IF best = 0 THEN [nearest |-> <<>>, dist2 |-> inf]
        ELSE [nearest |-> points[best], dist2 |-> ds[best]]

\* fix_train_routes.py: (nearest_point, min_distance), None being <<>>
find_nearest_track_point(lat, lon, track_points, max_distance_km) ==
    LET ds   == [i \in 1 .. Len(track_points) |->
                    distance_km_squared(lat, lon, track_points[i].lat,
                                        track_points[i].lon)]
        best == first_nearest(ds, max_distance_km)
    IN  IF best = 0 THEN [nearest |-> <<>>, dist2 |-> inf]
        ELSE [nearest |-> track_points[best], dist2 |-> ds[best]]

\* fix_train_alignment.py: the point of the segment at parameter t, t being
\* the projection parameter clamped to [0, 1]
closest_point_on_line(point, line_start, line_end) ==
    LET x1 == line_start[1]
        y1 == line_start[2]
        x2 == line_end[1]
        y2 == line_end[2]
        line_length_squared == (x2 - x1) * (x2 - x1) + (y2 - y1) * (y2 - y1)
        dot == (point[1] - x1) * (x2 - x1) + (point[2] - y1) * (y2 - y1)
    IN  IF line_length_squared = 0 THEN line_start
        ELSE IF dot <= 0 THEN line_start
        ELSE IF dot >= line_length_squared THEN line_end
        ELSE <<x1 + (dot * (x2 - x1)) \div line_length_squared,
               y1 + (dot * (y2 - y1)) \div line_length_squared>>

\* distance_point_to_line, squared
distance_point_to_line_squared(point, line_start, line_end) ==
    LET projection == closest_point_on_line(point, line_start, line_end)
    IN  (point[1] - projection[1]) * (point[1] - projection[1])
        + (point[2] - projection[2]) * (point[2] - projection[2])

\* the segments <<start, end>> of a list of lines, in order
segments_of(lines) ==
    Flatten([l \in 1 .. Len(lines) |->
        [i \in 1 .. (IF Len(lines[l]) = 0 THEN 0 ELSE Len(lines[l]) - 1) |->
            <<lines[l][i], lines[l][i + 1]>>]])

\* fix_train_alignment.py: the segments the search goes through, those of the
\* MultiLineString features
searched_segments(railway_lines) ==
    Flatten([f \in 1 .. Len(railway_lines) |->
        IF railway_lines[f].geometry.type = "MultiLineString"
        THEN segments_of(railway_lines[f].geometry.coordinates)
        ELSE <<>>])

\* fix_train_alignment.py: feature['geometry']['type'] raises KeyError when
\* the geometry has no 'type' and TypeError when the geometry is null
search_raises(railway_lines) ==
    \E f \in 1 .. Len(railway_lines) :
        railway_lines[f].geometry.type \in {"no type", "null"}

\* fix_train_alignment.py, find_nearest_railway_point: the closest point of
\* the first segment of least distance, and train_point when there is none
find_nearest_on_lines(train_point, railway_lines) ==
    LET segs == searched_segments(railway_lines)
        ds   == [i \in 1 .. Len(segs) |->
                    distance_point_to_line_squared(train_point, segs[i][1], segs[i][2])]
        best == IF Len(segs) = 0 THEN 0
                ELSE CHOOSE i \in 1 .. Len(segs) :
                        \A j \in 1 .. Len(segs) :
                            ds[i] < ds[j] \/ (ds[i] = ds[j] /\ i <= j)
    IN  IF best = 0 THEN [best_point |-> train_point, dist2 |-> inf]
        ELSE [best_point |-> closest_point_on_line(train_point, segs[best][1],
                                                   segs[best][2]),
              dist2 |-> ds[best]]

\* one pass of a snapping loop over a coordinate entry: the entry searched
\* for, the radius of the search (0: none), the result and the entry appended
\* fix_alignment.py, align_train_routes
aligned_coord(coord, points) ==
    LET found == find_nearest_railway_point(coord[2], coord[1], points,
                                            align_max_distance_km)
        snaps == found.nearest # <<>>
                 /\ found.dist2 < snap_threshold_km * snap_threshold_km
    IN  [point    |-> coord,
         max_km   |-> align_max_distance_km,
         nearest  |-> IF found.nearest = <<>> THEN <<>>
                      ELSE <<found.nearest[2], found.nearest[1]>>,
         dist2    |-> found.dist2,
         improved |-> snaps /\ found.dist2 * 100 > 1,
         output   |-> IF snaps THEN <<found.nearest[2], found.nearest[1]>> ELSE coord]

\* fix_train_alignment.py, create_railway_aligned_routes
railway_aligned_coord(coord, railway_lines) ==
    LET found == find_nearest_on_lines(coord, railway_lines)
    IN  [point    |-> coord,
         max_km   |-> 0,
         nearest  |-> IF found.dist2 = inf THEN <<>> ELSE found.best_point,
         dist2    |-> found.dist2,
         improved |-> FALSE,
         output   |-> found.best_point]

\* fix_train_routes.py, snap_route_to_tracks
snapped_coord(coord, track_points) ==
    LET found == find_nearest_track_point(coord[2], coord[1], track_points,
                                          snap_max_distance_km)
    IN  [point    |-> coord,
         max_km   |-> snap_max_distance_km,
         nearest  |-> IF found.nearest = <<>> THEN <<>>
                      ELSE <<found.nearest.lon, found.nearest.lat>>,
         dist2    |-> found.dist2,
         improved |-> FALSE,
         output   |-> IF found.nearest # <<>>
                      THEN <<found.nearest.lon, found.nearest.lat>> ELSE coord]

\* the entries a snapping loop appends
outputs_of(log) == [k \in 1 .. Len(log) |-> log[k].output]

\* fix_alignment.py: the body of the loop over the trains
align_route(route_coords, points) ==
    LET coords == SelectSeq(route_coords, well_formed)
        log    == [k \in 1 .. Len(coords) |-> aligned_coord(coords[k], points)]
        alignment_improved == \E k \in 1 .. Len(log) : log[k].improved
    IN  IF route_coords = <<>>
        THEN [new_route |-> route_coords, log |-> <<>>, fixed |-> route_coords]
        ELSE [new_route |-> route_coords, log |-> log,
              fixed |-> IF alignment_improved THEN outputs_of(log) ELSE route_coords]

\* fix_train_alignment.py: the body of the loop over the trains
railway_aligned_route(original_coords, railway_lines) ==
    LET coords == SelectSeq(original_coords, well_formed)
        log    == [k \in 1 .. Len(coords) |->
                      railway_aligned_coord(coords[k], railway_lines)]
    IN  [new_route |-> original_coords, log |-> log,
         fixed |-> IF log # <<>> THEN outputs_of(log) ELSE original_coords]

\* 1000 * 0.3 * sin(ratio * pi) * 0.1 for ratio = i / 7, to the unit
curve_permille == <<13, 23, 29, 29, 23, 13>>

\* fix_train_routes.py: the interpolated points, each moved by the curve and
\* replaced by the nearest track point within interp_max_distance_km; the
\* interpolation is computed to the unit of the coordinates
create_realistic_intermediate_points(start_coord, end_coord, track_points, n) ==
    IF ~well_formed(start_coord) \/ ~well_formed(end_coord) THEN <<>>
    ELSE [i \in 1 .. n |->
            LET interp_lat == start_coord[2]
                    + (i * (end_coord[2] - start_coord[2]) * (1000 + curve_permille[i]))
                          \div ((n + 1) * 1000)
                interp_lon == start_coord[1]
                    + (i * (end_coord[1] - start_coord[1]) * (1000 + curve_permille[i]))
                          \div ((n + 1) * 1000)
                found == find_nearest_track_point(interp_lat, interp_lon, track_points,
                                                  interp_max_distance_km)
            IN  IF found.nearest # <<>> THEN <<found.nearest.lon, found.nearest.lat>>
                ELSE <<interp_lon, interp_lat>>]

\* fix_train_routes.py: new_route = [start_coord] + intermediate_points + [end_coord]
new_route(route_coords, track_points) ==
    <<route_coords[1]>>
        \o create_realistic_intermediate_points(route_coords[1],
               route_coords[Len(route_coords)], track_points, num_points)
        \o <<route_coords[Len(route_coords)]>>

\* fix_train_routes.py: the body of the loop over the trains
fixed_route(route_coords, track_points) ==
    LET route  == IF Len(route_coords) < sparse_route_points
                  THEN new_route(route_coords, track_points) ELSE route_coords
        coords == SelectSeq(route, well_formed)
        log    == [k \in 1 .. Len(coords) |-> snapped_coord(coords[k], track_points)]
    IN  IF Len(route_coords) < 2
        THEN [new_route |-> route_coords, log |-> <<>>, fixed |-> route_coords]
        ELSE [new_route |-> route, log |-> log, fixed |-> outputs_of(log)]

\* Inputs: a network of two parallel tracks 4 km apart, and route entries on
\* a track point, near one, between two, and far from every track
LineA ==
    [geometry |-> [type |-> "LineString", coordinates |-> << <<0, 0>>, <<10, 0>> >>]]
MultiB ==
    [geometry |-> [type |-> "MultiLineString",
                   coordinates |-> << << <<0, 4>>, <<10, 4>> >> >>]]
PointF == [geometry |-> [type |-> "Point", coordinates |-> <<>>]]
NoType == [geometry |-> [type |-> "no type", coordinates |-> << <<0, 0>>, <<10, 0>> >>]]
NullGeometry == [geometry |-> [type |-> "null", coordinates |-> <<>>]]

Networks ==
    {<<>>, <<LineA>>, <<MultiB>>, <<LineA, MultiB>>, <<PointF, LineA>>,
     <<PointF, MultiB>>, <<NoType, MultiB>>, <<NullGeometry, LineA>>}

OnTrack == <<0, 0>>
NearTrack == <<1, 1>>
MidTrack == <<5, 1>>
FarAway == <<5, 30>>

RouteCoordinates ==
    {<<>>,
     <<NearTrack>>,
     <<OnTrack, NearTrack>>,
     <<NearTrack, FarAway, MidTrack>>,
     <<NearTrack, <<>>, MidTrack>>,
     <<(<<7>>), NearTrack>>,
     <<OnTrack, NearTrack, MidTrack, FarAway, OnTrack, NearTrack, MidTrack, FarAway>>}

AlignScripts == {"fix_alignment", "fix_train_alignment", "fix_train_routes"}

AlignInit ==
    /\ pc = "align_call"
    /\ \E n \in 0 .. MaxTrains :
         \E s \in AlignScripts, f \in Networks, t \in [1 .. n -> RouteCoordinates] :
             align_call = [script |-> s, features |-> f, trains |-> t]
    /\ railway_points = <<>>
    /\ new_routes = <<>>
    /\ snap_log = <<>>
    /\ fixed_trains = <<>>
    /\ top_trains = <<>>
    /\ trains_with_schedules = <<>>
    /\ hourly_coverage = NoCoverage
    /\ gap_hours = <<>>
    /\ ultra_trains = <<>>
    /\ call = NoCall
    /\ call_duration = 0
    /\ schedules = <<>>
    /\ HistIdle
    /\ RunIdle

\* the network file is read: fix_alignment.py returns without output when no
\* point was loaded, fix_train_alignment.py keeps the features as they are,
\* and fix_train_routes.py ends with the AttributeError of a null geometry
LoadNetwork ==
    /\ pc = "align_call"
    /\ \/ /\ align_call.script = "fix_alignment"
          /\ railway_points' = load_railway_network(align_call.features)
          /\ pc' = IF railway_points' = <<>> THEN "skipped" ELSE "network_loaded"
       \/ /\ align_call.script = "fix_train_alignment"
          /\ railway_points' = <<>>
          /\ pc' = "network_loaded"
       \/ /\ align_call.script = "fix_train_routes"
          /\ IF \E i \in 1 .. Len(align_call.features) :
                    align_call.features[i].geometry.type = "null"
             THEN railway_points' = <<>> /\ pc' = "crashed"
             ELSE /\ railway_points' = load_track_points(align_call.features)
                  /\ pc' = "network_loaded"
    /\ UNCHANGED <<align_call, new_routes, snap_log, fixed_trains, top_trains,
                   trains_with_schedules, hourly_coverage, gap_hours, ultra_trains,
                   call, call_duration, schedules, hist_vars, run_vars>>

\* the routes of the results of the loop over the trains are written
Written(results) ==
    /\ new_routes' = [t \in 1 .. Len(results) |-> results[t].new_route]
    /\ snap_log' = [t \in 1 .. Len(results) |-> results[t].log]
    /\ fixed_trains' = [t \in 1 .. Len(results) |-> results[t].fixed]
    /\ pc' = "written"

\* fix_alignment.py: align_train_routes after the load
AlignTrainRoutes ==
    /\ pc = "network_loaded"
    /\ align_call.script = "fix_alignment"
    /\ \E results \in {[t \in 1 .. Len(align_call.trains) |->
                          align_route(align_call.trains[t], railway_points)]} :
          Written(results)
    /\ UNCHANGED <<align_call, railway_points, top_trains, trains_with_schedules,
                   hourly_coverage, gap_hours, ultra_trains, call, call_duration,
                   schedules, hist_vars, run_vars>>

\* fix_train_alignment.py: create_railway_aligned_routes; the first search
\* raises when search_raises, and the except clause returns without output
CreateRailwayAlignedRoutes ==
    /\ pc = "network_loaded"
    /\ align_call.script = "fix_train_alignment"
    /\ IF /\ search_raises(align_call.features)
          /\ \E t \in 1 .. Len(align_call.trains) :
                \E k \in 1 .. Len(align_call.trains[t]) :
                    well_formed(align_call.trains[t][k])
       THEN /\ pc' = "aborted"
            /\ UNCHANGED <<new_routes, snap_log, fixed_trains>>
       ELSE \E results \in {[t \in 1 .. Len(align_call.trains) |->
                               railway_aligned_route(align_call.trains[t],
                                                     align_call.features)]} :
               Written(results)
    /\ UNCHANGED <<align_call, railway_points, top_trains, trains_with_schedules,
                   hourly_coverage, gap_hours, ultra_trains, call, call_duration,
                   schedules, hist_vars, run_vars>>

\* fix_train_routes.py: fix_train_routes after the load, for one file
FixTrainRoutes ==
    /\ pc = "network_loaded"
    /\ align_call.script = "fix_train_routes"
    /\ \E results \in {[t \in 1 .. Len(align_call.trains) |->
                          fixed_route(align_call.trains[t], railway_points)]} :
          Written(results)
    /\ UNCHANGED <<align_call, railway_points, top_trains, trains_with_schedules,
                   hourly_coverage, gap_hours, ultra_trains, call, call_duration,
                   schedules, hist_vars, run_vars>>

AlignNext ==
    LoadNetwork \/ AlignTrainRoutes \/ CreateRailwayAlignedRoutes \/ FixTrainRoutes

SpecAlign == AlignInit /\ [][AlignNext]_vars

----------------------------------------------------------------------------
(* Properties of the coverage count (checked under SpecTiming) *)

\* the hours of the strings of a schedule
dep_hour_of(schedule) == schedule.departure[1]
arr_hour_of(schedule) == schedule.arrival[1]

\* the hours a schedule is active in: from its departure hour through its
\* arrival hour, in two ranges when the arrival hour is not after the
\* departure hour
ActiveHours(schedule) ==
    IF arr_hour_of(schedule) > dep_hour_of(schedule)
    THEN dep_hour_of(schedule) .. arr_hour_of(schedule)
    ELSE (dep_hour_of(schedule) .. (HoursPerDay - 1)) \cup (0 .. arr_hour_of(schedule))

RECURSIVE SumOver(_, _)
SumOver(f, S) ==
    IF S = {} THEN 0
    ELSE LET x == CHOOSE y \in S : TRUE IN f[x] + SumOver(f, S \ {x})

OnlySchedule(dep, arr) ==
    /\ pc = "coverage_checked"
    /\ Len(schedules) = 1
    /\ schedules[1].departure = dep
    /\ schedules[1].arrival = arr

\* C1: the one schedule 23:00:00 -> 02:00:00 adds 1 to the buckets 23, 0, 1, 2
\* and to no other, and the one schedule 08:00:00 -> 08:00:00 adds 1 to the
\* bucket 8 and to no other.
C1_WraparoundCorrectness ==
    /\ OnlySchedule(<<23, 0, 0>>, <<2, 0, 0>>)
         => hourly_coverage = [h \in Hours |-> IF h \in {23, 0, 1, 2} THEN 1 ELSE 0]
    /\ OnlySchedule(<<8, 0, 0>>, <<8, 0, 0>>)
         => hourly_coverage = [h \in Hours |-> IF h = 8 THEN 1 ELSE 0]

\* the first half of C1 alone
C1_OvernightHalf ==
    OnlySchedule(<<23, 0, 0>>, <<2, 0, 0>>)
        => hourly_coverage = [h \in Hours |-> IF h \in {23, 0, 1, 2} THEN 1 ELSE 0]

\* C2: every bucket h is the number of schedules whose hour span contains h
\* (so one schedule adds at most 1 to a bucket), the 24 buckets sum to the sum
\* of the span lengths, and no bucket is negative.
C2_BucketCountsInstances ==
    pc = "coverage_checked" =>
        /\ \A h \in Hours :
             /\ hourly_coverage[h] =
                  Cardinality({i \in 1 .. Len(schedules) : h \in ActiveHours(schedules[i])})
             /\ hourly_coverage[h] >= 0
        /\ SumOver(hourly_coverage, Hours) =
             SumOver([i \in 1 .. Len(schedules) |-> Cardinality(ActiveHours(schedules[i]))],
                     1 .. Len(schedules))

\* C3: a bucket is touched exactly when it lies in the marked hours of some
\* schedule: dep_hour..arr_hour when arr_hour > dep_hour, and otherwise
\* dep_hour..23 together with 0..arr_hour; a schedule alone touches exactly
\* its marked hours.
C3_MarkedHours ==
    pc = "coverage_checked" =>
        /\ \A h \in Hours :
             hourly_coverage[h] > 0
                <=> \E i \in 1 .. Len(schedules) : h \in ActiveHours(schedules[i])
        /\ Len(schedules) = 1 =>
             {h \in Hours : hourly_coverage[h] # 0} = ActiveHours(schedules[1])

\* a schedule that ends in an earlier hour than it starts in has been counted
\* together with one that ends in a later hour, and some hour is left untouched
C3_Witness ==
    /\ pc = "coverage_checked"
    /\ \E i \in 1 .. Len(schedules) : arr_hour_of(schedules[i]) < dep_hour_of(schedules[i])
    /\ \E i \in 1 .. Len(schedules) : arr_hour_of(schedules[i]) > dep_hour_of(schedules[i])
    /\ \E h \in Hours : hourly_coverage[h] = 0

----------------------------------------------------------------------------
(* Properties of the gap filling (checked under Spec) *)

\* the coverage count of the routes as they are now
CoverageNow == count_coverage(trains_with_schedules)

\* the number of schedules create_smart_timing gave route i
ExpandedLen(i) == Len(smart_intervals(priority_of(top_trains[i].score)))

\* the duration of a base trip as the timing functions define it
BaseDuration(train) ==
    LET dep == parse_time(train.departure)
        arr == parse_time(train.arrival)
    IN  IF arr - dep <= 0 THEN arr - dep + SecondsPerDay ELSE arr - dep

\* C4: after the gap filling, every hour that was a gap has reached
\* min_coverage_needed or is reported as unresolved.
C4_BackfillConvergence ==
    pc \in {"Backfilled", "Written"} =>
        \A now \in {CoverageNow} :
            \A k \in 1 .. Len(gap_hours) :
                \/ now[gap_hours[k]] >= min_coverage_needed
                \/ gap_hours[k] \in reported_unresolved

\* C5: no route receives more than one schedule from one gap filling, so that
\* distinct gaps are served by distinct routes.
C5_OneBackfillPerRoute ==
    [][pc = "Expanded" /\ pc' = "Backfilled" =>
          \A i \in 1 .. Len(trains_with_schedules) :
              Len(trains_with_schedules'[i].schedules)
                  <= Len(trains_with_schedules[i].schedules) + 1]_vars

\* C6: the k-th schedule the gap filling adds to a route departs at the k-th
\* gap hour g, at g:00:00, and arrives at g:00:00 plus the duration of the
\* route's base trip, modulo 24 hours.
C6_BackfillTimes ==
    pc \in {"Backfilled", "Written"} =>
        \A i \in 1 .. Len(trains_with_schedules) :
            \A n \in (ExpandedLen(i) + 1) .. Len(trains_with_schedules[i].schedules) :
                LET added == trains_with_schedules[i].schedules[n]
                    g     == gap_hours[n - ExpandedLen(i)]
                IN  /\ added.departure = <<g, 0, 0>>
                    /\ IsTimeString(added.arrival)
                    /\ strptime(added.arrival) =
                         (g * SecondsPerHour + BaseDuration(top_trains[i].train))
                             % SecondsPerDay

\* two schedules were added to a route whose base trip departs and arrives at
\* the same time
C6_Witness ==
    /\ pc = "Backfilled"
    /\ \E i \in 1 .. Len(trains_with_schedules) :
          /\ top_trains[i].train.departure = top_trains[i].train.arrival
          /\ Len(trains_with_schedules[i].schedules) = ExpandedLen(i) + MaxGapsFilled

\* C7: the gap filling keeps every route and every schedule that existed, in
\* place and unchanged, and no bucket of the coverage count gets smaller.
C7_BackfillAppendOnly ==
    [][pc = "Expanded" =>
          /\ Len(trains_with_schedules') = Len(trains_with_schedules)
          /\ \A i \in 1 .. Len(trains_with_schedules) :
                /\ Len(trains_with_schedules'[i].schedules)
                     >= Len(trains_with_schedules[i].schedules)
                /\ \A n \in 1 .. Len(trains_with_schedules[i].schedules) :
                      trains_with_schedules'[i].schedules[n]
                          = trains_with_schedules[i].schedules[n]
          /\ \A before \in {count_coverage(trains_with_schedules)} :
                \A after \in {count_coverage(trains_with_schedules')} :
                   \A h \in Hours : after[h] >= before[h]]_vars

\* the gap filling has added schedules to a route that already had four
C7_Witness ==
    /\ pc = "Backfilled"
    /\ gap_hours # <<>>
    /\ \E i \in 1 .. Len(trains_with_schedules) :
          Len(trains_with_schedules[i].schedules) > ExpandedLen(i)

----------------------------------------------------------------------------
(* Properties of the timing functions (checked under SpecTiming) *)

\* the base trip of the call, as times of day
BaseDep == parse_time(call.base_departure)
BaseArr == parse_time(call.base_arrival)

\* the table the called function reads call.tier in
ConfiguredOffsets ==
    IF call.fn = "create_smart_timing" THEN smart_intervals(call.tier)
    ELSE IF call.fn = "create_minimal_timing_strategy" THEN minimal_intervals(call.tier)
    ELSE continuous_intervals(call.tier)

\* the hour offsets of the departures emitted, read back from their strings
EmittedOffsets ==
    [i \in 1 .. Len(schedules) |->
        ((strptime(schedules[i].departure) - BaseDep) % SecondsPerDay)
            \div SecondsPerHour]

\* C8: the duration is arrival - departure when the arrival is after the
\* departure and arrival + 24h - departure otherwise; it lies in (0, 24h], and
\* is 24h when departure and arrival are equal.
C8_ComputeDuration ==
    pc # "timing_call" =>
        /\ BaseArr > BaseDep => call_duration = BaseArr - BaseDep
        /\ BaseArr <= BaseDep => call_duration = BaseArr + SecondsPerDay - BaseDep
        /\ 0 < call_duration /\ call_duration <= SecondsPerDay
        /\ BaseArr = BaseDep => call_duration = SecondsPerDay

\* a call with equal departure and arrival has computed its duration
C8_Witness ==
    /\ pc = "timing_done"
    /\ call.base_departure = <<8, 0, 0>>
    /\ call.base_arrival = <<8, 0, 0>>
    /\ call_duration = SecondsPerDay

\* C9: one schedule per configured offset o, in offset order, numbered 1..n,
\* departing at (base departure + o) mod 24h and arriving at (base departure
\* + o + duration) mod 24h; every emitted string is a time of day and every
\* schedule lasts as long as the base trip, modulo 24h.
C9_Expand ==
    pc # "timing_call" =>
        /\ Len(schedules) = Len(ConfiguredOffsets)
        /\ \A i \in 1 .. Len(schedules) :
             LET o   == ConfiguredOffsets[i] * SecondsPerHour
                 dur == IF BaseArr - BaseDep <= 0
                        THEN BaseArr - BaseDep + SecondsPerDay ELSE BaseArr - BaseDep
                 dep == schedules[i].departure
                 arr == schedules[i].arrival
             IN  /\ schedules[i].schedule_id = i
                 /\ IsTimeString(dep) /\ IsTimeString(arr)
                 /\ strptime(dep) = (BaseDep + o) % SecondsPerDay
                 /\ strptime(arr) = (BaseDep + o + dur) % SecondsPerDay
                 /\ (strptime(arr) - strptime(dep)) % SecondsPerDay
                      = (BaseArr - BaseDep) % SecondsPerDay

\* six schedules were emitted, the last of them past midnight of the base day
C9_Witness ==
    /\ pc = "timing_done"
    /\ Len(schedules) = 6
    /\ call.base_departure = <<23, 50, 0>>
    /\ call.base_arrival = <<8, 5, 0>>
    /\ schedules[6].departure = <<19, 50, 0>>
    /\ schedules[6].arrival = <<4, 5, 0>>

\* the table of the frequency tiers as the claim gives it
ClaimedOffsets(tier) ==
    IF tier = "maximum" THEN <<0, 4, 8, 12, 16, 20>>
    ELSE IF tier = "high" THEN <<0, 6, 12, 18>>
    ELSE IF tier = "medium" THEN <<0, 8, 16>>
    ELSE IF tier = "standard" THEN <<0, 12>>
    ELSE <<0>>

\* C10 as claimed: every timing function emits, for the tiers maximum, high,
\* medium, standard and daily, the offsets of the one table above.
C10_OneTierTable ==
    (pc # "timing_call"
       /\ call.tier \in {"maximum", "high", "medium", "standard", "daily"})
        => EmittedOffsets = ClaimedOffsets(call.tier)

\* C10 as amended: each timing function has a fixed table of its own.
\* create_minimal_timing_strategy: maximum 0,4,8,12,16,20; high 0,6,12,18;
\* medium 0,8,16; any other name 0,12.  create_smart_timing: ultra_high
\* 0,6,12,18; high 0,8,16; medium 0,12; any other name 0.
\* create_continuous_timing: high 0,4,8,12,16,20; medium 0,8,16; any other
\* name 0.
C10_TableOfEachFunction ==
    pc # "timing_call" =>
        /\ call.fn = "create_minimal_timing_strategy" =>
             EmittedOffsets =
                 CASE call.tier = "maximum" -> <<0, 4, 8, 12, 16, 20>>
                   [] call.tier = "high"    -> <<0, 6, 12, 18>>
                   [] call.tier = "medium"  -> <<0, 8, 16>>
                   [] OTHER                 -> <<0, 12>>
        /\ call.fn = "create_smart_timing" =>
             EmittedOffsets =
                 CASE call.tier = "ultra_high" -> <<0, 6, 12, 18>>
                   [] call.tier = "high"       -> <<0, 8, 16>>
                   [] call.tier = "medium"     -> <<0, 12>>
                   [] OTHER                    -> <<0>>
        /\ call.fn = "create_continuous_timing" =>
             EmittedOffsets =
                 CASE call.tier = "high"   -> <<0, 4, 8, 12, 16, 20>>
                   [] call.tier = "medium" -> <<0, 8, 16>>
                   [] OTHER                -> <<0>>

\* the three functions have been called with the same tier name "high" and
\* the same base trip; this is the call of create_smart_timing, which emitted
\* three schedules
C10_Witness ==
    /\ pc = "timing_done"
    /\ call.fn = "create_smart_timing"
    /\ call.tier = "high"
    /\ EmittedOffsets = <<0, 8, 16>>

----------------------------------------------------------------------------
(* The timing functions and the coverage count together (SpecTiming) *)

\* the departure and arrival strings of the schedules emitted, in order
EmittedTimes ==
    [i \in 1 .. Len(schedules) |-> <<schedules[i].departure, schedules[i].arrival>>]

\* C11: the base trip 06:00:00 -> 18:00:00, expanded by a tier whose offsets
\* are 0, 8, 16, gives exactly 06:00:00 -> 18:00:00, 14:00:00 -> 02:00:00 and
\* 22:00:00 -> 10:00:00, and the coverage count of these three alone has no
\* bucket below 1.
C11_EndToEnd ==
    (/\ pc # "timing_call"
     /\ call.base_departure = <<6, 0, 0>>
     /\ call.base_arrival = <<18, 0, 0>>
     /\ ConfiguredOffsets = <<0, 8, 16>>)
        => /\ EmittedTimes = << <<(<<6, 0, 0>>), (<<18, 0, 0>>)>>,
                                <<(<<14, 0, 0>>), (<<2, 0, 0>>)>>,
                                <<(<<22, 0, 0>>), (<<10, 0, 0>>)>> >>
           /\ pc = "coverage_checked" => \A h \in Hours : hourly_coverage[h] >= 1

\* create_minimal_timing_strategy expanded 06:00:00 -> 18:00:00 as "medium"
\* and the three schedules have been counted
C11_Witness ==
    /\ pc = "coverage_checked"
    /\ call.fn = "create_minimal_timing_strategy"
    /\ call.tier = "medium"
    /\ call.base_departure = <<6, 0, 0>>
    /\ call.base_arrival = <<18, 0, 0>>
    /\ Len(schedules) = 3
    /\ \A h \in Hours : hourly_coverage[h] >= 1

----------------------------------------------------------------------------
(* Properties of the coverage count (checked under SpecHistogram) *)

\* C12: the coverage count of a list of schedules is, bucket by bucket, the
\* sum of the counts of the two parts of any split of the list, and the count
\* of any reordering of the list is the same 24 buckets.
C12_HistogramAdditivity ==
    pc = "histogram_done" =>
        /\ \A h \in Hours :
             histograms.whole[h] = histograms.left[h] + histograms.right[h]
        /\ histograms.reordered = histograms.whole

\* three schedules, one of them counted twice in its hour, were split into
\* two non-empty parts and counted in another order
C12_Witness ==
    /\ pc = "histogram_done"
    /\ Len(hist_input.whole) = 3
    /\ hist_input.left = {2}
    /\ hist_input.order = <<3, 1, 2>>
    /\ hist_input.whole[1] # hist_input.whole[3]
    /\ histograms.whole[8] = 4
    /\ histograms.left[8] = 2

----------------------------------------------------------------------------
(* The default of an unparseable time string (checked under SpecExpand) *)

\* the string a base time stands for: itself when it is a time of day
\* HH:MM:SS, and 06:00:00 otherwise
Defaulted(time_str) == IF IsTimeString(time_str) THEN time_str ELSE <<6, 0, 0>>

\* a time string moved by a number of hours, within the day
Shifted(time_str, hours) ==
    strftime((strptime(time_str) + hours * SecondsPerHour) % SecondsPerDay)

\* C19: whatever the two base strings are, the call returns its schedules;
\* the first departs and arrives at the base strings, each replaced by
\* 06:00:00 when it is not a time HH:MM:SS, and every other schedule is that
\* base trip moved by a whole number of hours.
C19_DefaultTime ==
    pc # "timing_call" =>
        /\ Len(schedules) >= 1
        /\ schedules[1].departure = Defaulted(call.base_departure)
        /\ schedules[1].arrival = Defaulted(call.base_arrival)
        /\ \A i \in 1 .. Len(schedules) :
             \E o \in Hours :
                /\ schedules[i].departure = Shifted(Defaulted(call.base_departure), o)
                /\ schedules[i].arrival = Shifted(Defaulted(call.base_arrival), o)

\* create_continuous_schedule returned two schedules for a departure string
\* that is not a time and a valid arrival string
C19_Witness ==
    /\ pc = "timing_done"
    /\ call.fn = "create_continuous_schedule"
    /\ call.base_departure = <<24, 0, 0>>
    /\ call.base_arrival = <<23, 59, 59>>
    /\ Len(schedules) = 2
    /\ schedules[2].departure = <<18, 0, 0>>
    /\ schedules[2].arrival = <<11, 59, 59>>

----------------------------------------------------------------------------
(* Properties of the alignment scripts (checked under SpecAlign) *)

\* every segment of the network file: those of its LineString and of its
\* MultiLineString features
AllSegments ==
    Flatten([f \in 1 .. Len(align_call.features) |->
                segments_of(lines_of(align_call.features[f].geometry))])

\* the squares of the distances from a point to the segments of the network
SegmentDistances(point) ==
    {distance_point_to_line_squared(point, AllSegments[i][1], AllSegments[i][2]) :
        i \in 1 .. Len(AllSegments)}

OnNetwork(point) == 0 \in SegmentDistances(point)

\* the snap threshold of a script: the 2 km of fix_alignment.py, and for the
\* scripts that have no threshold the largest search radius, 20 km
ClaimedThresholdKm ==
    IF align_call.script = "fix_alignment" THEN snap_threshold_km
    ELSE snap_max_distance_km

\* C13: every entry a snapping loop appends is the entry it searched for,
\* unchanged, or a point of the network no farther from it than the snap
\* threshold; the written route is made of these entries, or is the route
\* as it was.
C13_SnapThresholdRespected ==
    pc = "written" =>
        \A t \in 1 .. Len(snap_log) :
            /\ \A k \in 1 .. Len(snap_log[t]) :
                 LET q == snap_log[t][k]
                 IN  \/ q.output = q.point
                     \/ /\ OnNetwork(q.output)
                        /\ distance_km_squared(q.point[2], q.point[1],
                                               q.output[2], q.output[1])
                             <= ClaimedThresholdKm * ClaimedThresholdKm
            /\ fixed_trains[t] \in {align_call.trains[t], outputs_of(snap_log[t])}

\* C13 for the two scripts that search within a radius
C13_RespectedWithinRadius ==
    align_call.script # "fix_train_alignment" => C13_SnapThresholdRespected

\* C14: the written route has as many entries as the route handed to the
\* snapping loop, and its i-th entry is the i-th entry of that route or the
\* entry the loop appended for it; entries with fewer than two components
\* are kept in their places.
C14_AlignPreservesLength ==
    pc = "written" =>
        \A t \in 1 .. Len(fixed_trains) :
            /\ Len(fixed_trains[t]) = Len(new_routes[t])
            /\ \A i \in 1 .. Len(fixed_trains[t]) :
                 \/ fixed_trains[t][i] = new_routes[t][i]
                 \/ \E k \in 1 .. Len(snap_log[t]) :
                       /\ snap_log[t][k].point = new_routes[t][i]
                       /\ snap_log[t][k].output = fixed_trains[t][i]

\* C14 for the routes whose entries all have two components
C14_PreservedWhenWellFormed ==
    pc = "written" =>
        \A t \in 1 .. Len(fixed_trains) :
            (\A i \in 1 .. Len(new_routes[t]) : well_formed(new_routes[t][i]))
                => /\ Len(fixed_trains[t]) = Len(new_routes[t])
                   /\ \A i \in 1 .. Len(fixed_trains[t]) :
                        \/ fixed_trains[t][i] = new_routes[t][i]
                        \/ \E k \in 1 .. Len(snap_log[t]) :
                              /\ snap_log[t][k].point = new_routes[t][i]
                              /\ snap_log[t][k].output = fixed_trains[t][i]

\* the route of train t as it was read
RouteOf(t) == align_call.trains[t]

\* C15: fix_train_routes.py turns every route of 2 to 7 entries into its
\* first entry, num_points = sparse_route_points - 2 synthesized points and
\* its last entry, so into exactly sparse_route_points entries and never into
\* fewer entries than it had; a route of sparse_route_points entries or more
\* goes to the snapping loop as it is.
C15_DensifyToMinPoints ==
    (pc = "written" /\ align_call.script = "fix_train_routes") =>
        \A t \in 1 .. Len(new_routes) :
            /\ (2 <= Len(RouteOf(t)) /\ Len(RouteOf(t)) < sparse_route_points)
                 => /\ Len(new_routes[t]) = sparse_route_points
                    /\ num_points = sparse_route_points - 2
                    /\ new_routes[t][1] = RouteOf(t)[1]
                    /\ new_routes[t][Len(new_routes[t])] = RouteOf(t)[Len(RouteOf(t))]
                    /\ Len(new_routes[t]) >= Len(RouteOf(t))
            /\ Len(RouteOf(t)) >= sparse_route_points => new_routes[t] = RouteOf(t)

\* C15 for the routes whose first and last entries have two components
C15_DensifyWellFormedEnds ==
    (pc = "written" /\ align_call.script = "fix_train_routes") =>
        \A t \in 1 .. Len(new_routes) :
            (/\ Len(RouteOf(t)) >= 1
             /\ well_formed(RouteOf(t)[1])
             /\ well_formed(RouteOf(t)[Len(RouteOf(t))]))
                => /\ (2 <= Len(RouteOf(t)) /\ Len(RouteOf(t)) < sparse_route_points)
                        => /\ Len(new_routes[t]) = sparse_route_points
                           /\ new_routes[t][1] = RouteOf(t)[1]
                           /\ new_routes[t][Len(new_routes[t])]
                                = RouteOf(t)[Len(RouteOf(t))]
                   /\ Len(RouteOf(t)) >= sparse_route_points
                        => new_routes[t] = RouteOf(t)

\* the entries an input entry may have become: itself, or the entry the
\* snapping loop of fix_train_routes.py appends for it
ImageOf(coord) ==
    IF well_formed(coord) THEN {coord, snapped_coord(coord, railway_points).output}
    ELSE {coord}

\* the entries i.. of a route have images, in order, among the entries j..
\* of the written route
RECURSIVE Embeds(_, _, _, _)
Embeds(route, i, written, j) ==
    IF i > Len(route) THEN TRUE
    ELSE IF j > Len(written) THEN FALSE
    ELSE IF written[j] \in ImageOf(route[i]) THEN Embeds(route, i + 1, written, j + 1)
    ELSE Embeds(route, i, written, j + 1)

\* C16: through fix_train_routes.py every entry of a route, the inner
\* entries of a route of 3 to 7 entries included, has its own entry in the
\* written route, itself or snapped, and these come in the order of the
\* route (stated for the routes whose entries all have two components).
C16_NoPointDiscarded ==
    (pc = "written" /\ align_call.script = "fix_train_routes") =>
        \A t \in 1 .. Len(fixed_trains) :
            (\A i \in 1 .. Len(RouteOf(t)) : well_formed(RouteOf(t)[i]))
                => Embeds(RouteOf(t), 1, fixed_trains[t], 1)

\* C16 for the routes of two entries and of sparse_route_points entries or
\* more, all with two components
C16_KeptWhenNotSparse ==
    (pc = "written" /\ align_call.script = "fix_train_routes") =>
        \A t \in 1 .. Len(fixed_trains) :
            (/\ Len(RouteOf(t)) = 2 \/ Len(RouteOf(t)) >= sparse_route_points
             /\ \A i \in 1 .. Len(RouteOf(t)) : well_formed(RouteOf(t)[i]))
                => Embeds(RouteOf(t), 1, fixed_trains[t], 1)

\* C17: every nearest-track search returns the least distance from the
\* point to a segment of the network within the radius of the search, and
\* returns nothing exactly when no segment lies within the radius (a search
\* without a radius: when the network has no segment).
C17_SegmentFidelity ==
    pc = "written" =>
        \A t \in 1 .. Len(snap_log) :
            \A k \in 1 .. Len(snap_log[t]) :
                LET q      == snap_log[t][k]
                    within == IF q.max_km = 0 THEN SegmentDistances(q.point)
                              ELSE {d \in SegmentDistances(q.point) :
                                        d <= q.max_km * q.max_km}
                IN  /\ q.nearest = <<>> <=> within = {}
                    /\ q.nearest # <<>> =>
                         /\ q.dist2 \in within
                         /\ \A d \in within : q.dist2 <= d

\* the end points of the segments of the network
NetworkVertices ==
    {AllSegments[i][1] : i \in 1 .. Len(AllSegments)}
        \cup {AllSegments[i][2] : i \in 1 .. Len(AllSegments)}

\* the points loaded from the network file, as entries [lon, lat]
LoadedPoints ==
    IF align_call.script = "fix_alignment"
    THEN {<<railway_points[i][2], railway_points[i][1]>> :
              i \in 1 .. Len(railway_points)}
    ELSE {<<railway_points[i].lon, railway_points[i].lat>> :
              i \in 1 .. Len(railway_points)}

\* C18: reading the network never ends the run, whatever the geometry of a
\* feature is (another type, no type, null); the points loaded are those of
\* all the LineString and MultiLineString features, and the searches of
\* fix_train_alignment.py, which loads no points, go through the segments of
\* both kinds.
C18_NetworkBuild ==
    /\ pc \notin {"crashed", "aborted"}
    /\ pc = "skipped" => AllSegments = <<>>
    /\ (pc \in {"network_loaded", "written"}
          /\ align_call.script # "fix_train_alignment")
         => LoadedPoints = NetworkVertices
    /\ (pc = "written" /\ align_call.script = "fix_train_alignment")
         => \A t \in 1 .. Len(snap_log) :
               \A k \in 1 .. Len(snap_log[t]) :
                  AllSegments # <<>> =>
                     /\ snap_log[t][k].nearest # <<>>
                     /\ \A d \in SegmentDistances(snap_log[t][k].point) :
                           snap_log[t][k].dist2 <= d

\* C18 for the loaders of fix_alignment.py and fix_train_routes.py on the
\* network files without a null geometry
C18_BothTypesLoaded ==
    (/\ align_call.script # "fix_train_alignment"
     /\ \A f \in 1 .. Len(align_call.features) :
           align_call.features[f].geometry.type # "null")
        => /\ pc \notin {"crashed", "aborted"}
           /\ pc = "skipped" => AllSegments = <<>>
           /\ pc \in {"network_loaded", "written"} => LoadedPoints = NetworkVertices

\* C20: with a network file that has a track, a run ends with its output
\* written and an entry for every train, whatever single feature or
\* coordinate entry is malformed.
C20_ErrorsIsolated ==
    (pc \in {"skipped", "crashed", "aborted", "written"} /\ AllSegments # <<>>)
        => /\ pc = "written"
           /\ Len(fixed_trains) = Len(align_call.trains)

\* C20 for the malformed coordinate entries alone: on the network files whose
\* features all have a type
C20_IsolatedCoordinates ==
    (/\ pc \in {"skipped", "crashed", "aborted", "written"}
     /\ \A f \in 1 .. Len(align_call.features) :
           align_call.features[f].geometry.type \notin {"null", "no type"}
     /\ AllSegments # <<>>)
        => /\ pc = "written"
           /\ Len(fixed_trains) = Len(align_call.trains)


----------------------------------------------------------------------------
(* The wrap decision of the coverage count against that of the duration    *)
(* (checked under SpecTiming)                                              *)

\* the histogram of one schedule counted as spanning midnight: the hours from
\* the departure hour to 23 and the hours from 0 to the arrival hour
wrapped_histogram(schedule) ==
    [h \in Hours |-> (IF h >= dep_hour_of(schedule) THEN 1 ELSE 0)
                       + (IF h <= arr_hour_of(schedule) THEN 1 ELSE 0)]

\* C25: a schedule is counted as spanning midnight exactly when its arrival
\* time of day is not after its departure time of day, which is the test the
\* duration uses; the schedule 08:05:00 -> 08:50:00 is counted in hour 8 only.
C25_WrapDecisionsAgree ==
    /\ (pc = "coverage_checked" /\ Len(schedules) = 1)
         => ((hourly_coverage = wrapped_histogram(schedules[1]))
               <=> (strptime(schedules[1].arrival)
                      <= strptime(schedules[1].departure)))
    /\ OnlySchedule(<<8, 5, 0>>, <<8, 50, 0>>)
         => hourly_coverage = [h \in Hours |-> IF h = 8 THEN 1 ELSE 0]


----------------------------------------------------------------------------
(* Coverage of the instances of one route (checked under SpecTiming)       *)

\* n offsets that start at 0 and are 24/n hours apart
EvenlySpaced(offsets) ==
    /\ Len(offsets) >= 1
    /\ HoursPerDay % Len(offsets) = 0
    /\ offsets[1] = 0
    /\ \A i \in 1 .. Len(offsets) - 1 :
         offsets[i + 1] - offsets[i] = HoursPerDay \div Len(offsets)

\* C26: when the n offsets of the tier are 24/n hours apart and the base trip
\* lasts at least 24/n hours, the coverage count of the n instances of the
\* route alone is at least 1 in each of the 24 hours.
C26_SingleRouteFullCoverage ==
    (/\ pc = "coverage_checked"
     /\ EvenlySpaced(ConfiguredOffsets)
     /\ call_duration * Len(ConfiguredOffsets) >= SecondsPerDay)
        => \A h \in Hours : hourly_coverage[h] >= 1

\* the six instances of a trip of 4 hours 45 minutes, and the one instance of
\* a trip of 24 hours, have been counted
C26_Witness ==
    /\ pc = "coverage_checked"
    /\ \/ /\ Len(schedules) = 6
          /\ call.base_departure = <<8, 5, 0>>
          /\ call.base_arrival = <<12, 0, 0>>
       \/ /\ Len(schedules) = 1
          /\ call_duration = SecondsPerDay


----------------------------------------------------------------------------
(* What one gap filling adds (checked under Spec) *)

\* the hours the count leaves below min_coverage_needed
GapSet(coverage) == {h \in Hours : coverage[h] < min_coverage_needed}

\* the schedules route i has after the step and had not before it
AddedTo(i) ==
    SubSeq(trains_with_schedules'[i].schedules,
           Len(trains_with_schedules[i].schedules) + 1,
           Len(trains_with_schedules'[i].schedules))

\* C27: one gap filling adds min(2, number of gap hours) schedules to the
\* top route when that route's priority_score is above 140 and there is a
\* gap, and nothing otherwise; the schedules added depart at the lowest gap
\* hours, in ascending order; every other route keeps its schedule list.
C27_BackfillFrame ==
    [][pc = "Expanded" =>
         \A gaps \in {GapSet(hourly_coverage')} :
            /\ Len(trains_with_schedules') = Len(trains_with_schedules)
            /\ \A i \in 1 .. Len(trains_with_schedules) :
                 /\ Len(trains_with_schedules'[i].schedules)
                      >= Len(trains_with_schedules[i].schedules)
                 /\ Len(AddedTo(i)) =
                      IF i = 1 /\ trains_with_schedules[i].priority_score > 140
                      THEN Min(2, Cardinality(gaps))
                      ELSE 0
                 /\ i > 1 => trains_with_schedules'[i] = trains_with_schedules[i]
                 /\ \A j \in 1 .. Len(AddedTo(i)) :
                      \E g \in gaps :
                         /\ AddedTo(i)[j].departure = <<g, 0, 0>>
                         /\ Cardinality({h \in gaps : h < g}) = j - 1]_vars

\* a filling that added two schedules to the top route while a second route
\* scored above 140 too, a filling of routes that left a gap and added
\* nothing, and a filling that found no gap
C27_Witness ==
    /\ pc = "Backfilled"
    /\ \/ /\ Len(trains_with_schedules) >= 2
          /\ trains_with_schedules[2].priority_score > 140
          /\ Len(trains_with_schedules[1].schedules) = ExpandedLen(1) + 2
          /\ Len(trains_with_schedules[2].schedules) = ExpandedLen(2)
       \/ /\ gap_hours # <<>>
          /\ Len(trains_with_schedules) >= 1
          /\ \A i \in 1 .. Len(trains_with_schedules) :
                Len(trains_with_schedules[i].schedules) = ExpandedLen(i)
       \/ /\ gap_hours = <<>>
          /\ Len(trains_with_schedules) >= 1


----------------------------------------------------------------------------
(* Whole runs of Mapultra_optimize_trains.py, Mapcreate_minimal_trains.py,  *)
(* Mapextract_daily_trains.py and build_routes.py, from the input file to   *)
(* the exit of the interpreter                                              *)
(*                                                                         *)
(* A train name is the set of the keywords it contains; a list of          *)
(* route_coordinates is the list of the positions 1..n of its points; the  *)
(* value null of a distance is the number null. The entries have no        *)
(* stations and no station names, so the station and city bonuses of the   *)
(* scoring functions are 0.                                                *)

MaxRecords == 2
MaxCoords == 40

null == 0 - 1
ultra_selection == 50
minimal_selection == 25

\* a route of n points
Coordinates(n) == [i \in 1 .. n |-> i]

contains_any(train_name, keywords) == train_name \cap keywords # {}

\* calculate_ultra_priority: the entries whose scoring reaches a comparison
\* of the distance
ultra_compares_distance(train_entry) ==
    \/ contains_any(train_entry.train_name,
                    {"RAJDHANI", "SHATABDI", "VANDE BHARAT", "DURONTO",
                     "GARIB RATH", "SUPERFAST", "SF", "EXPRESS"})
    \/ contains_any(train_entry.train_name, {"PASSENGER", "LOCAL"})

\* calculate_ultra_priority of an entry whose distance is a number (the branch
\* of the suburban trains needs more than 8 stations and is never taken)
calculate_ultra_priority(train_entry) ==
    LET train_name == train_entry.train_name
        distance   == train_entry.distance
        category   ==
            IF contains_any(train_name, {"RAJDHANI", "SHATABDI", "VANDE BHARAT"})
            THEN 150
            ELSE IF contains_any(train_name, {"DURONTO", "GARIB RATH"}) THEN 120
            ELSE IF contains_any(train_name, {"SUPERFAST", "SF"}) THEN 100
            ELSE IF "EXPRESS" \in train_name THEN 80
            ELSE IF contains_any(train_name, {"PASSENGER", "LOCAL"}) /\ distance > 300
            THEN 60
            ELSE 0
        long_route ==
            IF distance > 1500 THEN 50
            ELSE IF distance > 1000 THEN 30
            ELSE IF distance > 500 THEN 15
            ELSE 0
    IN  IF category = 0 THEN 0 ELSE category + long_route

\* calculate_coverage_efficiency: the entries whose scoring reaches a
\* comparison of the distance
minimal_compares_distance(train_entry) ==
    contains_any(train_entry.train_name,
                 {"RAJDHANI", "SHATABDI", "VANDE BHARAT", "DURONTO", "SUPERFAST",
                  "SF", "EXPRESS"})

\* calculate_coverage_efficiency of an entry whose distance is a number
calculate_coverage_efficiency(train_entry) ==
    LET train_name == train_entry.train_name
        distance   == train_entry.distance
        points     == Len(train_entry.route_coordinates)
        category   ==
            IF contains_any(train_name, {"RAJDHANI", "SHATABDI", "VANDE BHARAT"})
            THEN 200
            ELSE IF "DURONTO" \in train_name THEN 180
            ELSE IF contains_any(train_name, {"SUPERFAST", "SF"}) THEN 150
            ELSE IF "EXPRESS" \in train_name THEN 120
            ELSE 0
        long_route ==
            IF distance > 2000 THEN 100
            ELSE IF distance > 1500 THEN 70
            ELSE IF distance > 1000 THEN 40
            ELSE IF distance > 500 THEN 20
            ELSE 0
        spread ==
            IF points > 50 THEN 30
            ELSE IF points > 30 THEN 20
            ELSE IF points > 20 THEN 10
            ELSE 0
    IN  IF category = 0 \/ long_route = 0 THEN 0
        ELSE category + long_route + spread

\* the loop "if train_num not in trains_dict: trains_dict[train_num] = train"
\* over the first n entries, and list(trains_dict.values())
RECURSIVE unique_trains(_, _)
unique_trains(trains, n) ==
    IF n = 0 THEN <<>>
    ELSE IF \E j \in 1 .. n - 1 : trains[j].train_number = trains[n].train_number
         THEN unique_trains(trains, n - 1)
         ELSE Append(unique_trains(trains, n - 1), trains[n])

\* the scoring loop: the entries whose score reaches the least score
RECURSIVE scored_trains(_, _, _, _)
scored_trains(script, trains, least, n) ==
    IF n = 0 THEN <<>>
    ELSE LET score == IF script = "Mapultra_optimize_trains"
                      THEN calculate_ultra_priority(trains[n])
                      ELSE calculate_coverage_efficiency(trains[n])
         IN  IF score >= least
             THEN Append(scored_trains(script, trains, least, n - 1),
                         [score |-> score, train |-> trains[n]])
             ELSE scored_trains(script, trains, least, n - 1)

\* the scoring loop raises at an entry whose distance is null
scoring_raises(script, trains) ==
    \E n \in 1 .. Len(trains) :
        /\ trains[n].distance = null
        /\ IF script = "Mapultra_optimize_trains"
           THEN ultra_compares_distance(trains[n])
           ELSE minimal_compares_distance(trains[n])

\* scored_trains.sort(key=lambda x: x[0], reverse=True): the sort is stable
RECURSIVE sorted_by_score(_, _)
sorted_by_score(scored, n) ==
    IF n = 0 THEN <<>>
    ELSE LET before == sorted_by_score(scored, n - 1)
             k      == Cardinality({i \in 1 .. Len(before) :
                                       before[i].score >= scored[n].score})
         IN  SubSeq(before, 1, k) \o <<scored[n]>>
                 \o SubSeq(before, k + 1, Len(before))

\* the efficiency level a score selects
efficiency_of(score) ==
    IF score >= 250 THEN "maximum"
    ELSE IF score >= 200 THEN "high"
    ELSE IF score >= 180 THEN "medium"
    ELSE "standard"

\* the loop "for score, train in minimal_trains"
minimal_with_schedules(top) ==
    [i \in 1 .. Len(top) |->
        [train            |-> top[i].train,
         schedules        |-> create_minimal_timing_strategy(
                                  top[i].train.departure, top[i].train.arrival,
                                  efficiency_of(top[i].score)),
         efficiency_score |-> top[i].score]]

\* route_coords[::step]
every_nth(route_coords, step) ==
    [k \in 1 .. ((Len(route_coords) + step - 1) \div step) |->
        route_coords[(k - 1) * step + 1]]

\* "if len(route_coords) > 15: step = len(route_coords) // 12" of the ultra
\* script (most = 15, kept = 12) and "if len(route_coords) > 10: step =
\* len(route_coords) // 8" of the minimal script (most = 10, kept = 8)
reduce_coordinates(route_coords, most, kept) ==
    IF Len(route_coords) > most
    THEN every_nth(route_coords, Len(route_coords) \div kept)
    ELSE route_coords

reduced_route(script, route_coords) ==
    IF script = "Mapultra_optimize_trains"
    THEN reduce_coordinates(route_coords, 15, 12)
    ELSE reduce_coordinates(route_coords, 10, 8)

\* the entries of route number i with the fields copied from the train
train_entries_of(script, i, train_data) ==
    [k \in 1 .. Len(train_data.schedules) |->
        [id                |-> entries_of(i, train_data)[k].id,
         train_number      |-> train_data.train.train_number,
         train_name        |-> train_data.train.train_name,
         departure         |-> train_data.schedules[k].departure,
         arrival           |-> train_data.schedules[k].arrival,
         route_coordinates |-> reduced_route(script,
                                             train_data.train.route_coordinates)]]

RECURSIVE train_entries_from(_, _, _)
train_entries_from(script, i, tws) ==
    IF i > Len(tws) THEN <<>>
    ELSE train_entries_of(script, i, tws[i]) \o train_entries_from(script, i + 1, tws)

\* variant of output_metadata: the routes counted as the trains
output_metadata_routes(train_list, tws) ==
    [total_trains |-> Len(tws), unique_routes |-> Len(tws)]

\* "total_trains": len(ultra_trains), "unique_routes": len(trains_with_schedules)
output_metadata(train_list, tws) ==
    [total_trains |-> Len(train_list), unique_routes |-> Len(tws)]


\* is_daily_train of an entry without train_type: the names excluded, the
\* names included, and the ranges of the train number
is_daily_train(train_entry) ==
    /\ ~ contains_any(train_entry.train_name,
                      {"WEEKLY", "FESTIVAL", "HOLIDAY", "SEASONAL"})
    /\ \/ contains_any(train_entry.train_name,
                       {"EXPRESS", "SUPERFAST", "RAJDHANI", "SHATABDI", "DURONTO",
                        "GARIB RATH", "HUMSAFAR", "TEJAS", "VANDE BHARAT",
                        "PASSENGER", "LOCAL", "EMU", "DEMU", "MEMU"})
       \/ train_entry.train_number \in (12000 .. 12999) \cup (22000 .. 22999)
                                         \cup (50000 .. 59999) \cup (60000 .. 69999)

\* the loop "for train in data.get('trains', [])" of extract_daily_trains
RECURSIVE daily_trains(_, _)
daily_trains(trains, n) ==
    IF n = 0 THEN <<>>
    ELSE IF is_daily_train(trains[n])
         THEN Append(daily_trains(trains, n - 1), trains[n])
         ELSE daily_trains(trains, n - 1)

\* build_routes.py: the stops that carry a train number ("if not tn: continue")
has_number(stop) == stop.train_number # ""

\* variant of train_names: the name of the last stop that has one
train_names_last(stops, tn) ==
    LET named == {n \in 1 .. Len(stops) :
                     stops[n].train_number = tn /\ stops[n].train_name # ""}
    IN  IF named = {} THEN "Unknown"
        ELSE stops[CHOOSE n \in named : \A m \in named : m <= n].train_name

\* build_routes.py: train_names.get(tn, "Unknown") after the loop "if tn not
\* in train_names and stop.get('train_name'): train_names[tn] = ..."
train_names(stops, tn) ==
    LET named == {n \in 1 .. Len(stops) :
                     stops[n].train_number = tn /\ stops[n].train_name # ""}
    IN  IF named = {} THEN "Unknown"
        ELSE stops[CHOOSE n \in named : \A m \in named : n <= m].train_name

\* build_routes.py: routes[tn] after the first n stops
RECURSIVE routes(_, _, _)
routes(stops, tn, n) ==
    IF n = 0 THEN <<>>
    ELSE IF stops[n].train_number = tn
         THEN Append(routes(stops, tn, n - 1),
                     [station_code |-> stops[n].station_code,
                      arrival      |-> stops[n].arrival])
         ELSE routes(stops, tn, n - 1)

\* build_routes.py: the list final after the first n stops, one entry per
\* train number in the order of the first stop of each
RECURSIVE final(_, _)
final(stops, n) ==
    IF n = 0 THEN <<>>
    ELSE IF has_number(stops[n])
            /\ ~ \E j \in 1 .. n - 1 : stops[j].train_number = stops[n].train_number
         THEN Append(final(stops, n - 1),
                     [train_number |-> stops[n].train_number,
                      train_name   |-> train_names(stops, stops[n].train_number),
                      route        |-> routes(stops, stops[n].train_number,
                                              Len(stops))])
         ELSE final(stops, n - 1)

----------------------------------------------------------------------------
(* Inputs of the runs *)

Express(number, name, distance, departure, arrival, points) ==
    [train_number |-> number, train_name |-> name, distance |-> distance,
     departure |-> departure, arrival |-> arrival,
     route_coordinates |-> Coordinates(points)]

\* entries of the input file of the three train scripts: two entries of
\* train 1 and four of train 2, one of them with a null distance
InputTrains ==
    { Express(1, {"RAJDHANI"}, 2500, <<6, 0, 0>>, <<18, 0, 0>>, 12),
      Express(1, {"EXPRESS"}, 2500, <<23, 0, 0>>, <<2, 0, 0>>, 24),
      Express(2, {"RAJDHANI"}, 1600, <<8, 0, 0>>, <<8, 0, 0>>, 16),
      Express(2, {"EXPRESS"}, 600, <<6, 0, 0>>, <<18, 0, 0>>, 30),
      Express(2, {"EXPRESS"}, null, <<6, 0, 0>>, <<18, 0, 0>>, 12),
      Express(2, {"WEEKLY", "EXPRESS"}, 1200, <<23, 0, 0>>, <<2, 0, 0>>, 12) }

\* an entry that both scripts select, with a route of n points
LongRoute(n) == Express(1, {"RAJDHANI"}, 2500, <<6, 0, 0>>, <<18, 0, 0>>, n)

\* the stops of schedules.json: the train number and the train name may be
\* missing or empty
InputStops ==
    [train_number : {"", "12301", "12302"}, train_name : {"", "A", "B"},
     station_code : {"X"}, arrival : {"06:00:00", "18:00:00"}]

TrainScripts == {"Mapultra_optimize_trains", "Mapcreate_minimal_trains",
                 "Mapextract_daily_trains"}

NoFile == [state |-> "absent", metadata |-> <<>>, trains |-> <<>>]
PreviousFile == [state |-> "previous", metadata |-> <<>>, trains |-> <<>>]

RunInit ==
    /\ pc = "run_call"
    /\ \/ \E s \in TrainScripts, f \in {"missing", "invalid"} :
             run = [script |-> s, file |-> f, input |-> <<>>]
       \/ \E s \in TrainScripts, n \in 0 .. MaxRecords :
             \E t \in [1 .. n -> InputTrains] :
                run = [script |-> s, file |-> "valid", input |-> t]
       \/ \E s \in TrainScripts, n \in 0 .. MaxCoords :
             run = [script |-> s, file |-> "valid", input |-> <<LongRoute(n)>>]
       \/ \E f \in {"missing", "invalid"} :
             run = [script |-> "build_routes", file |-> f, input |-> <<>>]
       \/ \E n \in 0 .. MaxRecords :
             \E t \in [1 .. n -> InputStops] :
                run = [script |-> "build_routes", file |-> "valid", input |-> t]
    /\ output_file \in {NoFile, PreviousFile}
    /\ exit_status = "running"
    /\ printed = ""
    /\ top_trains = <<>>
    /\ trains_with_schedules = <<>>
    /\ hourly_coverage = NoCoverage
    /\ gap_hours = <<>>
    /\ ultra_trains = <<>>
    /\ call = NoCall
    /\ call_duration = 0
    /\ schedules = <<>>
    /\ HistIdle
    /\ AlignIdle

\* what the run leaves alone when the try block raises: the handler prints
\* "Error: ..." and returns False, and the interpreter exits with status 0
RunFailed(message) ==
    /\ printed' = message
    /\ exit_status' = "0"
    /\ UNCHANGED <<output_file, top_trains, trains_with_schedules,
                   hourly_coverage, gap_hours>>

\* python Mapultra_optimize_trains.py
RunUltra ==
    /\ pc = "run_call"
    /\ run.script = "Mapultra_optimize_trains"
    /\ \E unique \in {unique_trains(run.input, Len(run.input))} :
         IF run.file # "valid" \/ scoring_raises(run.script, unique)
         THEN RunFailed("Error")
         ELSE \E scored \in {scored_trains(run.script, unique, 100, Len(unique))} :
              \E sorted \in {sorted_by_score(scored, Len(scored))} :
              \E top \in {SubSeq(sorted, 1, Min(ultra_selection, Len(sorted)))} :
              \E expanded \in {with_schedules(top)} :
              \E coverage \in {count_coverage(expanded)} :
              \E gaps \in {find_gap_hours(coverage)} :
              \E tws \in {fill_gaps(expanded, gaps)} :
              \E train_list \in {train_entries_from(run.script, 1, tws)} :
                 /\ top_trains' = top
                 /\ hourly_coverage' = coverage
                 /\ gap_hours' = gaps
                 /\ trains_with_schedules' = tws
                 /\ output_file' = [state    |-> "written",
                                    metadata |-> output_metadata(train_list, tws),
                                    trains   |-> train_list]
                 /\ printed' = "Top 10 ultra-priority routes"
                 /\ exit_status' = "0"
    /\ pc' = "run_done"
    /\ UNCHANGED <<run, ultra_trains, call, call_duration, schedules, hist_vars,
                   align_vars>>

\* python Mapcreate_minimal_trains.py
RunMinimal ==
    /\ pc = "run_call"
    /\ run.script = "Mapcreate_minimal_trains"
    /\ \E unique \in {unique_trains(run.input, Len(run.input))} :
         IF run.file # "valid" \/ scoring_raises(run.script, unique)
         THEN RunFailed("Error")
         ELSE \E scored \in {scored_trains(run.script, unique, 150, Len(unique))} :
              \E sorted \in {sorted_by_score(scored, Len(scored))} :
              \E top \in {SubSeq(sorted, 1, Min(minimal_selection, Len(sorted)))} :
              \E tws \in {minimal_with_schedules(top)} :
              \E train_list \in {train_entries_from(run.script, 1, tws)} :
                 /\ top_trains' = top
                 /\ trains_with_schedules' = tws
                 /\ output_file' = [state    |-> "written",
                                    metadata |-> output_metadata(train_list, tws),
                                    trains   |-> train_list]
                 /\ printed' = "Top 10 maximum-efficiency routes"
                 /\ exit_status' = "0"
                 /\ UNCHANGED <<hourly_coverage, gap_hours>>
    /\ pc' = "run_done"
    /\ UNCHANGED <<run, ultra_trains, call, call_duration, schedules, hist_vars,
                   align_vars>>

\* python Mapextract_daily_trains.py
RunExtract ==
    /\ pc = "run_call"
    /\ run.script = "Mapextract_daily_trains"
    /\ IF run.file = "missing" THEN RunFailed("Error: Could not find")
       ELSE IF run.file = "invalid" THEN RunFailed("Error: Invalid JSON")
       ELSE \E daily \in {daily_trains(run.input, Len(run.input))} :
               /\ output_file' = [state    |-> "written",
                                  metadata |-> [total_trains |-> Len(daily)],
                                  trains   |-> daily]
               /\ printed' = "Sample daily trains found"
               /\ exit_status' = "0"
               /\ UNCHANGED <<top_trains, trains_with_schedules, hourly_coverage,
                              gap_hours>>
    /\ pc' = "run_done"
    /\ UNCHANGED <<run, ultra_trains, call, call_duration, schedules, hist_vars,
                   align_vars>>

\* python build_routes.py: open() and json.load() are not inside a try block,
\* the interpreter prints the traceback and exits with status 1
RunBuildRoutes ==
    /\ pc = "run_call"
    /\ run.script = "build_routes"
    /\ IF run.file # "valid"
       THEN /\ printed' = "Traceback"
            /\ exit_status' = "1"
            /\ UNCHANGED output_file
       ELSE /\ output_file' = [state    |-> "written",
                               metadata |-> <<>>,
                               trains   |-> final(run.input, Len(run.input))]
            /\ printed' = "JSON file generated"
            /\ exit_status' = "0"
    /\ pc' = "run_done"
    /\ UNCHANGED <<run, top_trains, trains_with_schedules, hourly_coverage,
                   gap_hours, ultra_trains, call, call_duration, schedules,
                   hist_vars, align_vars>>

RunNext == RunUltra \/ RunMinimal \/ RunExtract \/ RunBuildRoutes

SpecRun == RunInit /\ [][RunNext]_vars


----------------------------------------------------------------------------
(* Properties of the whole runs (checked under SpecRun) *)

RunDone(script) == pc = "run_done" /\ run.script = script

OutputWritten(script) == RunDone(script) /\ output_file.state = "written"

SelectionScripts == {"Mapultra_optimize_trains", "Mapcreate_minimal_trains"}

\* C21: a run whose input file is missing or is not valid JSON ends with a
\* non-zero exit status and a message and writes no output file, and a run
\* whose input file is valid JSON ends with status 0 and its output written.
C21_FatalInputError ==
    pc = "run_done" =>
        /\ run.file # "valid" =>
             /\ exit_status # "0"
             /\ printed # ""
             /\ output_file.state # "written"
        /\ run.file = "valid" =>
             /\ exit_status = "0"
             /\ output_file.state = "written"

\* the position of the schedule k of route i in the list of entries
EntryPosition(i, k) ==
    SumOver([j \in 1 .. Len(trains_with_schedules) |->
                Len(trains_with_schedules[j].schedules)], 1 .. (i - 1)) + k

\* C22: the output has one entry per schedule of each selected route, the
\* schedules added by the gap filling included, in route order:
\* metadata.total_trains is the number of entries and the sum of the numbers
\* of schedules of the selected routes, and metadata.unique_routes is the
\* number of selected routes.
C22_OneEntryPerInstance ==
    \A script \in SelectionScripts :
        OutputWritten(script) =>
            /\ output_file.metadata.total_trains = Len(output_file.trains)
            /\ Len(output_file.trains) =
                 SumOver([i \in 1 .. Len(trains_with_schedules) |->
                             Len(trains_with_schedules[i].schedules)],
                         1 .. Len(trains_with_schedules))
            /\ output_file.metadata.unique_routes = Len(top_trains)
            /\ Len(trains_with_schedules) = Len(top_trains)
            /\ \A i \in 1 .. Len(trains_with_schedules) :
                 \A k \in 1 .. Len(trains_with_schedules[i].schedules) :
                    LET entry    == output_file.trains[EntryPosition(i, k)]
                        schedule == trains_with_schedules[i].schedules[k]
                    IN  /\ entry.train_number = top_trains[i].train.train_number
                        /\ entry.departure = schedule.departure
                        /\ entry.arrival = schedule.arrival

\* two routes were selected and the gap filling gave the first two more
\* schedules than its tier has
C22_Witness ==
    /\ OutputWritten("Mapultra_optimize_trains")
    /\ Len(top_trains) = 2
    /\ Len(trains_with_schedules[1].schedules) = ExpandedLen(1) + 2
    /\ output_file.metadata.total_trains > 2

\* the first position of a train number in a list of entries or of stops
FirstIndex(records, tn) ==
    CHOOSE n \in 1 .. Len(records) :
        /\ records[n].train_number = tn
        /\ \A m \in 1 .. n - 1 : records[m].train_number # tn

\* the positions of the stops of a train, and the k-th of them
StopsOf(stops, tn) == {n \in 1 .. Len(stops) : stops[n].train_number = tn}

KthOf(positions, k) ==
    CHOOSE n \in positions : Cardinality({m \in positions : m < n}) = k - 1

\* the stops of each train of the output are its stops of the input, in
\* input order, and the trains follow the order of their first stops
StopsInInputOrder ==
    /\ {output_file.trains[e].train_number : e \in 1 .. Len(output_file.trains)}
         = {run.input[n].train_number : n \in 1 .. Len(run.input)} \ {""}
    /\ \A e \in 1 .. Len(output_file.trains) :
         LET entry == output_file.trains[e]
             mine  == StopsOf(run.input, entry.train_number)
         IN  /\ Len(entry.route) = Cardinality(mine)
             /\ \A k \in 1 .. Len(entry.route) :
                  /\ entry.route[k].station_code
                       = run.input[KthOf(mine, k)].station_code
                  /\ entry.route[k].arrival = run.input[KthOf(mine, k)].arrival
             /\ \A d \in 1 .. e - 1 :
                  FirstIndex(run.input, output_file.trains[d].train_number)
                      < FirstIndex(run.input, entry.train_number)

\* every selected train, and every entry written for it, is the first entry
\* of the input with its train number
FirstRecordRetained ==
    /\ \A i \in 1 .. Len(top_trains) :
          top_trains[i].train
              = run.input[FirstIndex(run.input, top_trains[i].train.train_number)]
    /\ \A e \in 1 .. Len(output_file.trains) :
          output_file.trains[e].train_name
              = run.input[FirstIndex(run.input,
                                     output_file.trains[e].train_number)].train_name

\* C23 as stated: the train name recorded for a train number is the name of
\* the first stop with that number ("Unknown" when that stop has none), the
\* train retained of several with one number is the first, and the stops of
\* a train are kept in input order.
C23_FirstSeenWins ==
    /\ OutputWritten("build_routes") =>
         /\ StopsInInputOrder
         /\ \A e \in 1 .. Len(output_file.trains) :
              LET first == run.input[FirstIndex(run.input,
                                                output_file.trains[e].train_number)]
              IN  output_file.trains[e].train_name =
                      IF first.train_name # "" THEN first.train_name ELSE "Unknown"
    /\ \A script \in SelectionScripts : OutputWritten(script) => FirstRecordRetained

\* C23 amended: the train name recorded for a train number is the first
\* non-empty name among the stops with that number ("Unknown" when none has
\* one); the train retained of several with one number is the first; the
\* stops of a train are kept in input order.
C23_FirstNameSeenWins ==
    /\ OutputWritten("build_routes") =>
         /\ StopsInInputOrder
         /\ \A e \in 1 .. Len(output_file.trains) :
              LET named == {n \in StopsOf(run.input,
                                          output_file.trains[e].train_number) :
                               run.input[n].train_name # ""}
              IN  output_file.trains[e].train_name =
                      IF named = {} THEN "Unknown"
                      ELSE run.input[KthOf(named, 1)].train_name
    /\ \A script \in SelectionScripts : OutputWritten(script) => FirstRecordRetained

\* two stops of one train with different names were grouped, and a selection
\* script retained one of two entries with one train number
C23_Witness ==
    \/ /\ OutputWritten("build_routes")
       /\ Len(run.input) = 2
       /\ run.input[1].train_number = run.input[2].train_number
       /\ run.input[1].train_name = "A"
       /\ run.input[2].train_name = "B"
       /\ Len(output_file.trains) = 1
    \/ /\ OutputWritten("Mapcreate_minimal_trains")
       /\ Len(run.input) = 2
       /\ run.input[1].train_number = run.input[2].train_number
       /\ run.input[1] # run.input[2]
       /\ Len(top_trains) = 1

\* C24: every entry written by create_minimal_maximal_trains has fewer than
\* 10 route_coordinates and every entry written by
\* create_ultra_optimized_trains has fewer than 15.
C24_CoordinateReductionBound ==
    /\ OutputWritten("Mapcreate_minimal_trains") =>
         \A e \in 1 .. Len(output_file.trains) :
            Len(output_file.trains[e].route_coordinates) < 10
    /\ OutputWritten("Mapultra_optimize_trains") =>
         \A e \in 1 .. Len(output_file.trains) :
            Len(output_file.trains[e].route_coordinates) < 15

\* C28: the schedule_ids of each selected route are 1..n in list order, the
\* schedules added by the gap filling included, and no two entries of the
\* output have the same id.
C28_UniqueIds ==
    \A script \in SelectionScripts :
        OutputWritten(script) =>
            /\ \A i \in 1 .. Len(trains_with_schedules) :
                 \A k \in 1 .. Len(trains_with_schedules[i].schedules) :
                    trains_with_schedules[i].schedules[k].schedule_id = k
            /\ \A d, e \in 1 .. Len(output_file.trains) :
                 d # e => output_file.trains[d].id # output_file.trains[e].id

\* the gap filling has added two schedules to the first of two routes
C28_Witness ==
    /\ OutputWritten("Mapultra_optimize_trains")
    /\ Len(trains_with_schedules) = 2
    /\ Len(trains_with_schedules[1].schedules) = ExpandedLen(1) + 2
    /\ Len(output_file.trains) > ExpandedLen(1) + 2


----------------------------------------------------------------------------
(* create_continuous_schedule against the timing functions (checked under  *)
(* SpecExpand)                                                             *)

\* the departure and the arrival of an instance
TimesOf(instance) ==
    [departure |-> instance.departure, arrival |-> instance.arrival]

\* the instance the timing functions emit for the base trip of the call and
\* the one offset o
DurationBased(o) ==
    TimesOf(timed_schedules(call.base_departure, call.base_arrival, <<o>>)[1])

\* the instance create_continuous_schedule emits for the base trip of the
\* call and the offset o, which the table of the local trains has at
\* position o / 2 + 1
ArrivalShifted(o) ==
    TimesOf(create_continuous_schedule(
                [departure  |-> call.base_departure,
                 arrival    |-> call.base_arrival,
                 train_name |-> {"LOCAL"}], 1)[(o \div 2) + 1])

\* C29: for every base trip and every offset, the instance of
\* create_continuous_schedule (departure and arrival both moved by the
\* offset) has the departure and the arrival of the instance of the timing
\* functions (departure moved by the offset, arrival the new departure plus
\* the duration).
C29_ExpansionsAgree ==
    pc = "timing_done" =>
        IF call.fn = "create_continuous_schedule"
        THEN \A j \in 1 .. Len(schedules) :
                TimesOf(schedules[j])
                    = DurationBased(schedule_intervals(call.train_name)[j])
        ELSE \A i \in 1 .. Len(schedules) :
                TimesOf(schedules[i]) = ArrivalShifted(ConfiguredOffsets[i])

\* create_continuous_schedule has emitted the twelve instances of a trip that
\* arrives before it departs
C29_Witness ==
    /\ pc = "timing_done"
    /\ call.fn = "create_continuous_schedule"
    /\ Len(schedules) = 12
    /\ call.base_departure = <<23, 50, 0>>
    /\ call.base_arrival = <<8, 5, 0>>

\* the ids create_continuous_schedule gives the instances of a train differ
C28_ContinuousScheduleIds ==
    (pc = "timing_done" /\ call.fn = "create_continuous_schedule") =>
        \A i, j \in 1 .. Len(schedules) : i # j => schedules[i].id # schedules[j].id


----------------------------------------------------------------------------
(* fix_train_routes.py run a second time, over the file it wrote *)

\* the routes of the alignment scripts, and a route of eight entries one of
\* which has no numbers
RefixRouteCoordinates ==
    RouteCoordinates
        \cup {<<OnTrack, NearTrack, <<>>, MidTrack, FarAway, OnTrack, NearTrack,
                MidTrack>>}

RefixInit ==
    /\ pc = "align_call"
    /\ \E n \in 0 .. MaxTrains :
         \E s \in AlignScripts, f \in Networks,
            t \in [1 .. n -> RefixRouteCoordinates] :
             align_call = [script |-> s, features |-> f, trains |-> t]
    /\ railway_points = <<>>
    /\ new_routes = <<>>
    /\ snap_log = <<>>
    /\ fixed_trains = <<>>
    /\ top_trains = <<>>
    /\ trains_with_schedules = <<>>
    /\ hourly_coverage = NoCoverage
    /\ gap_hours = <<>>
    /\ ultra_trains = <<>>
    /\ call = NoCall
    /\ call_duration = 0
    /\ schedules = <<>>
    /\ HistIdle
    /\ RunIdle

\* fix_train_routes.py started again: the network file is the one of the
\* first run, so the track points loaded are the same, and the trains are
\* those of the file the first run wrote
FixTrainRoutesAgain ==
    /\ pc = "written"
    /\ align_call.script = "fix_train_routes"
    /\ \E results \in {[t \in 1 .. Len(fixed_trains) |->
                          fixed_route(fixed_trains[t], railway_points)]} :
          /\ new_routes' = [t \in 1 .. Len(results) |-> results[t].new_route]
          /\ snap_log' = [t \in 1 .. Len(results) |-> results[t].log]
          /\ fixed_trains' = [t \in 1 .. Len(results) |-> results[t].fixed]
    /\ pc' = "written_again"
    /\ UNCHANGED <<align_call, railway_points, top_trains, trains_with_schedules,
                   hourly_coverage, gap_hours, ultra_trains, call, call_duration,
                   schedules, hist_vars, run_vars>>

RefixNext == AlignNext \/ FixTrainRoutesAgain

SpecRefix == RefixInit /\ [][RefixNext]_vars

\* C30: a second run of fix_train_routes.py over the output of the first
\* leaves the route_coordinates of every train as they are.
C30_FixIdempotent ==
    [][pc = "written" /\ pc' = "written_again" => fixed_trains' = fixed_trains]_vars

\* the same for the trains whose entries all have two numbers
C30_IdempotentWhenWellFormed ==
    [][pc = "written" /\ pc' = "written_again" =>
          \A t \in 1 .. Len(fixed_trains) :
              (\A k \in 1 .. Len(align_call.trains[t]) :
                    well_formed(align_call.trains[t][k]))
                 => fixed_trains'[t] = fixed_trains[t]]_vars

============================================================================
